---- MODULE Spec2Model ----
(***************************************************************************)
(* Model of the stock-market dashboard's technical-analysis code:          *)
(*   - the indicator library of utils.js (SMA, EMA, RSI, MACD, VWAP,       *)
(*     volume SMA, OBV, weekly / monthly resampling),                      *)
(*   - the useTechnicalAnalysis hook (analysis effect and signal effect).  *)
(*                                                                         *)
(* Numbers.  JavaScript numbers are modelled as exact rationals <<n, d>>   *)
(* in lowest terms with d > 0.  A pair with d = 0 is one of the three      *)
(* non-numbers null, undefined and NaN.  0-based JavaScript index i of an  *)
(* array is index i + 1 of the sequence that models it.                    *)
(***************************************************************************)
EXTENDS Integers, Sequences, FiniteSets, TLC

VARIABLES
    libCall,          \* the library call under test: function name and arguments
    libOut,           \* its return value, or Pending before the call
    activeTab,        \* useTechnicalAnalysis argument: the selected tab
    historicalErrorFromApi,  \* argument: "" (null) or the error message
    stockData,        \* argument: [loaded, nse, bse, dayHigh]
    historicalData,   \* argument: the historical API response
    analysisData,     \* useState: [set, daily, weekly, monthly, error]
    technicalSignal,  \* useState: [set, signal, scores, reasons]
    analysisLoading,  \* useState
    signalLocals,     \* the signal effect's locals when it last scored
    pc,               \* which effect runs next: "analysis", "signal" or "idle"
    server,           \* server.js: its environment and the request it handles
    app,              \* App.js: the state of App and of its two data hooks
    network           \* the client's requests: those in flight and a log

libVars == <<libCall, libOut>>
hookVars == <<activeTab, historicalErrorFromApi, stockData, historicalData,
              analysisData, technicalSignal, analysisLoading, signalLocals, pc>>
appVars == <<server, app, network>>
vars == <<libVars, hookVars, appVars>>

\* neither the server nor the App runs
AppUnmounted == server = <<>> /\ app = <<>> /\ network = <<>>

Pending == [done |-> FALSE, value |-> <<>>]

Return(v) == [done |-> TRUE, value |-> v]

----------------------------------------------------------------------------
(* Rational arithmetic *)

Null == <<0, 0>>
Undefined == <<1, 0>>
NaN == <<2, 0>>

\* x !== null && !isNaN(x); undefined converts to NaN
IsNum(x) == x[2] # 0

Abs(x) == IF x < 0 THEN -x ELSE x

RECURSIVE GCD(_, _)
GCD(a, b) == IF b = 0 THEN a ELSE GCD(b, a % b)

Norm(n, d) ==
    LET g == GCD(Abs(n), Abs(d))
        s == IF d < 0 THEN -1 ELSE 1
    IN  <<s * (n \div g), s * (d \div g)>>

R(i) == <<i, 1>>

RAdd(a, b) ==
    LET g == GCD(a[2], b[2])
    IN  Norm(a[1] * (b[2] \div g) + b[1] * (a[2] \div g), a[2] * (b[2] \div g))

RNeg(a) == <<-a[1], a[2]>>
RSub(a, b) == RAdd(a, RNeg(b))

RMul(a, b) ==
    LET x == Norm(a[1], b[2])
        y == Norm(b[1], a[2])
    IN  <<x[1] * y[1], x[2] * y[2]>>

\* a / b for b # 0
RDiv(a, b) == RMul(a, Norm(b[2], b[1]))

RLt(a, b) == a[1] * b[2] < b[1] * a[2]
RGt(a, b) == RLt(b, a)

\* arr.length, read off the index set without computing the entries of arr
Length(arr) == Cardinality(DOMAIN arr)

\* arr[i] for a 0-based index i: undefined past the end of the array
At(arr, i) == IF i >= 0 /\ i < Length(arr) THEN arr[i + 1] ELSE Undefined

\* for (i = lo; i < hi; i++) st = Body(st, i): the state after the loop.  The
\* range is split in halves and the first half is evaluated (its DOMAIN taken)
\* before the second starts, so that the evaluation depth grows with log(hi - lo).
\* The loop state st is a tuple, a record or a sequence.
RECURSIVE ForRange(_, _, _, _)
ForRange(Body(_, _), st, lo, hi) ==
    IF lo >= hi THEN st
    ELSE IF hi - lo = 1 THEN Body(st, lo)
    ELSE LET mid   == (lo + hi) \div 2
             first == ForRange(Body, st, lo, mid)
         IN  IF DOMAIN first = DOMAIN first
             THEN ForRange(Body, first, mid, hi)
             ELSE first

\* arr.slice(from, to).reduce((acc, val) => acc + val, 0), 0-based, to exclusive
SumSlice(arr, from, to) ==
    LET Add(acc, i) == RAdd(acc, arr[i + 1])
    IN  ForRange(Add, R(0), from, to)

NullArray(n) == [i \in 1..n |-> Null]

----------------------------------------------------------------------------
(* Indicator library (utils.js) *)

calculateSMAInternal_LateStart(data, period) ==
    IF Len(data) < period THEN <<>>
    ELSE [j \in 1..(Len(data) - period) |->
            RDiv(SumSlice(data, j, j + period), R(period))]

\* for (i = period - 1; i < data.length; i++) sma.push(sum(data[i-period+1..i]) / period)
calculateSMAInternal(data, period) ==
    IF Len(data) < period THEN <<>>
    ELSE [j \in 1..(Len(data) - period + 1) |->
            RDiv(SumSlice(data, j - 1, j - 1 + period), R(period))]

EMALoop_FirstValueSeed(data, period, from) ==
    LET k    == Norm(2, period + 1)
        seed == data[1]
        Step(st, i) ==
            LET currentEma == RAdd(RMul(data[i + 1], k),
                                   RMul(st.currentEma, RSub(R(1), k)))
            IN  [currentEma |-> currentEma, ema |-> Append(st.ema, currentEma)]
    IN  ForRange(Step, [currentEma |-> seed, ema |-> <<seed>>], from, Len(data)).ema

\* the loop of calculateEMAInternal over i = from .. data.length - 1
EMALoop(data, period, from) ==
    LET k    == Norm(2, period + 1)
        seed == RDiv(SumSlice(data, 0, period), R(period))
        Step(st, i) ==
            LET currentEma == RAdd(RMul(data[i + 1], k),
                                   RMul(st.currentEma, RSub(R(1), k)))
            IN  [currentEma |-> currentEma, ema |-> Append(st.ema, currentEma)]
    IN  ForRange(Step, [currentEma |-> seed, ema |-> <<seed>>], from, Len(data)).ema

calculateEMAInternal_LateStart(data, period) ==
    IF Len(data) < period THEN <<>> ELSE EMALoop(data, period, period + 1)

calculateEMAInternal(data, period) ==
    IF Len(data) < period THEN <<>> ELSE EMALoop(data, period, period)

\* 100 - 100 / (1 + rs), rs = Infinity when avgLoss is 0
RSIValue(avgGain, avgLoss) ==
    IF avgLoss = R(0) THEN R(100)
    ELSE RSub(R(100), RDiv(R(100), RAdd(R(1), RDiv(avgGain, avgLoss))))

calculateRSIInternal(data, period) ==
    IF Len(data) < period + 1 THEN <<>>
    ELSE
    LET Initial(st, i) ==
            LET change == RSub(data[i + 1], data[i])
            IN  IF RGt(change, R(0))
                THEN [st EXCEPT !.gains = RAdd(@, change)]
                ELSE [st EXCEPT !.losses = RAdd(@, RNeg(change))]
        sums == ForRange(Initial, [gains |-> R(0), losses |-> R(0)], 1, period + 1)
        Smooth(st, i) ==
            LET change      == RSub(data[i + 1], data[i])
                currentGain == IF RGt(change, R(0)) THEN change ELSE R(0)
                currentLoss == IF RGt(change, R(0)) THEN R(0) ELSE RNeg(change)
                avgGain == RDiv(RAdd(RMul(st.avgGain, R(period - 1)), currentGain),
                                R(period))
                avgLoss == RDiv(RAdd(RMul(st.avgLoss, R(period - 1)), currentLoss),
                                R(period))
            IN  [avgGain |-> avgGain, avgLoss |-> avgLoss,
                 rsiValues |-> Append(st.rsiValues, RSIValue(avgGain, avgLoss))]
    IN  ForRange(Smooth,
                 [avgGain |-> RDiv(sums.gains, R(period)),
                  avgLoss |-> RDiv(sums.losses, R(period)), rsiValues |-> <<>>],
                 period + 1, Len(data)).rsiValues

\* arr.filter(val => val !== null && !isNaN(val))
FilterNum(arr) ==
    LET Keep(acc, i) == IF IsNum(arr[i + 1]) THEN Append(acc, arr[i + 1]) ELSE acc
    IN  ForRange(Keep, <<>>, 0, Len(arr))

EmptyMACD == [macdLine |-> <<>>, signalLine |-> <<>>, histogram |-> <<>>]

\* the first 0-based index i < n where both EMAs hold a number; -1 if there is none
FirstValidIndex(fastEMA, slowEMA, n) ==
    LET valid == {i \in 0..(n - 1) : IsNum(At(fastEMA, i)) /\ IsNum(At(slowEMA, i))}
    IN  IF valid = {} THEN -1 ELSE CHOOSE i \in valid : \A j \in valid : i <= j

\* macdLine.push(fastEMA[i] - slowEMA[i]) or macdLine.push(null), for
\* i = firstValidIndex .. n - 1
MACDLine(fastEMA, slowEMA, firstValidIndex, n) ==
    [j \in 1..(n - firstValidIndex) |->
        LET i == firstValidIndex + j - 1
        IN  IF IsNum(At(fastEMA, i)) /\ IsNum(At(slowEMA, i))
            THEN RSub(At(fastEMA, i), At(slowEMA, i))
            ELSE Null]

\* Array(signalLinePadding).fill(null).concat(signalLineFull)
SignalLine(macdLine, signalLineFull) ==
    NullArray(Len(macdLine) - Len(signalLineFull)) \o signalLineFull

\* histogram.push(macdLine[i] - signalLine[i]) or histogram.push(null)
Histogram(macdLine, signalLine) ==
    [j \in 1..Len(macdLine) |->
        IF IsNum(macdLine[j]) /\ IsNum(signalLine[j])
        THEN RSub(macdLine[j], signalLine[j])
        ELSE Null]

\* the result of calculateMACDInternal once the signal line is padded
MACDResult(macdLine, signalLine) ==
    [macdLine |-> macdLine, signalLine |-> signalLine,
     histogram |-> Histogram(macdLine, signalLine)]

\* calculateMACDInternal from the filtering of macdLine on
MACDFromLine(macdLine, signalPeriod) ==
    LET validMacdLine == FilterNum(macdLine)
    IN  IF Len(validMacdLine) < signalPeriod
        THEN [macdLine |-> macdLine, signalLine |-> <<>>, histogram |-> <<>>]
        ELSE MACDResult(macdLine,
                        SignalLine(macdLine,
                                   calculateEMAInternal(validMacdLine, signalPeriod)))

\* calculateMACDInternal from the search of firstValidIndex on
MACDFromEMAs(fastEMA, slowEMA, n, signalPeriod) ==
    LET firstValidIndex == FirstValidIndex(fastEMA, slowEMA, n)
    IN  IF firstValidIndex < 0 THEN EmptyMACD
        ELSE MACDFromLine(MACDLine(fastEMA, slowEMA, firstValidIndex, n),
                          signalPeriod)

calculateMACDInternal(data, fastPeriod, slowPeriod, signalPeriod) ==
    IF Len(data) < slowPeriod + signalPeriod - 1 THEN EmptyMACD
    ELSE MACDFromEMAs(calculateEMAInternal(data, fastPeriod),
                      calculateEMAInternal(data, slowPeriod),
                      Len(data), signalPeriod)

calculateRollingVWAPInternal(prices, volumes, period) ==
    IF Len(prices) # Len(volumes) \/ Len(prices) < period
    THEN NullArray(Len(prices))
    ELSE [k \in 1..Len(prices) |->
            IF k - 1 < period - 1 THEN Null
            ELSE LET i == k - 1
                     Window(st, j) ==
                        LET index == i - j
                        IN  IF IsNum(prices[index + 1]) /\ IsNum(volumes[index + 1])
                            THEN [sumPriceVolume |-> RAdd(st.sumPriceVolume,
                                      RMul(prices[index + 1], volumes[index + 1])),
                                  sumVolume |-> RAdd(st.sumVolume, volumes[index + 1])]
                            ELSE st
                     sums == ForRange(Window,
                                 [sumPriceVolume |-> R(0), sumVolume |-> R(0)], 0, period)
                 IN  IF RGt(sums.sumVolume, R(0))
                     THEN RDiv(sums.sumPriceVolume, sums.sumVolume)
                     ELSE Null]

calculateVolumeSMAInternal(volumeData, period) ==
    IF Len(volumeData) < period THEN NullArray(Len(volumeData))
    ELSE [k \in 1..Len(volumeData) |->
            IF k - 1 < period - 1 THEN Null
            ELSE LET i == k - 1
                     Window(st, j) ==
                        LET vol == volumeData[i - j + 1]
                        IN  IF IsNum(vol)
                            THEN [sum |-> RAdd(st.sum, vol), count |-> st.count + 1]
                            ELSE st
                     sc == ForRange(Window, [sum |-> R(0), count |-> 0], 0, period)
                 IN  IF sc.count = period THEN RDiv(sc.sum, R(period)) ELSE Null]

calculateOBVInternal_NoFall(prices, volumes) ==
    IF Len(prices) # Len(volumes) \/ Len(prices) = 0 THEN <<>>
    ELSE
    LET Step(obvValues, i) ==
            LET prev == obvValues[i]
            IN  Append(obvValues,
                    IF RGt(prices[i + 1], prices[i]) THEN RAdd(prev, volumes[i + 1])
                    ELSE prev)
    IN  ForRange(Step, <<R(0)>>, 1, Len(prices))

calculateOBVInternal(prices, volumes) ==
    IF Len(prices) # Len(volumes) \/ Len(prices) = 0 THEN <<>>
    ELSE
    LET Step(obvValues, i) ==
            LET prev == obvValues[i]
            IN  Append(obvValues,
                    IF RGt(prices[i + 1], prices[i]) THEN RAdd(prev, volumes[i + 1])
                    ELSE IF RLt(prices[i + 1], prices[i]) THEN RSub(prev, volumes[i + 1])
                    ELSE prev)
    IN  ForRange(Step, <<R(0)>>, 1, Len(prices))

----------------------------------------------------------------------------
(* Dates.  A timestamp is a whole number of days since 1970-01-01 (the     *)
(* epoch milliseconds of a local midnight divided by 24*60*60*1000; the    *)
(* local time zone is UTC), so setHours(0,0,0,0) changes nothing.          *)

\* Date.prototype.getDay: 0 is Sunday; 1970-01-01 was a Thursday
getDay(t) == (t + 4) % 7

\* the proleptic Gregorian date of day t as <<year, month (0-based), day of month>>
CivilFromDays(t) ==
    LET z   == t + 719468
        era == z \div 146097
        doe == z - era * 146097
        yoe == (doe - doe \div 1460 + doe \div 36524 - doe \div 146096) \div 365
        doy == doe - (365 * yoe + yoe \div 4 - yoe \div 100)
        mp  == (5 * doy + 2) \div 153
        dom == doy - (153 * mp + 2) \div 5 + 1
        m   == IF mp < 10 THEN mp + 3 ELSE mp - 9
        y   == yoe + era * 400 + (IF m <= 2 THEN 1 ELSE 0)
    IN  <<y, m - 1, dom>>

getFullYear(t) == CivilFromDays(t)[1]
getMonth(t) == CivilFromDays(t)[2]

\* new Date(year, month, 1, 0, 0, 0, 0).getTime(), month 0-based
MonthStart(year, month) ==
    LET m   == month + 1
        y   == IF m <= 2 THEN year - 1 ELSE year
        era == y \div 400
        yoe == y - era * 400
        mp  == IF m > 2 THEN m - 3 ELSE m + 9
        doy == (153 * mp + 2) \div 5
        doe == yoe * 365 + yoe \div 4 - yoe \div 100 + doy
    IN  era * 146097 + doe - 719468

WeekStart_SundayForward(t) ==
    LET dayOfWeek == getDay(t)
    IN  t - dayOfWeek + 1

\* the Monday of the week of day t (the previous Monday for a Sunday)
WeekStart(t) ==
    LET dayOfWeek == getDay(t)
    IN  t - dayOfWeek + (IF dayOfWeek = 0 THEN -6 ELSE 1)

EmptyResample == [timestamps |-> <<>>, prices |-> <<>>, volumes |-> <<>>]

NoBucket == [open |-> FALSE, start |-> 0, sum |-> R(0)]

resampleToWeeklyInternal_LastVolume(dailyPricesWithTimestamps, dailyVolumes) ==
    IF Len(dailyPricesWithTimestamps) # Len(dailyVolumes)
       \/ Len(dailyPricesWithTimestamps) = 0
    THEN EmptyResample
    ELSE
    LET daily == dailyPricesWithTimestamps
        Step(st, i) ==
            LET timestamp == daily[i + 1][1]
                price     == daily[i + 1][2]
                currentWeekStartTime ==
                    IF st.cur.open THEN st.cur.start ELSE WeekStart(timestamp)
                currentWeekVolumeSum == RAdd(st.cur.sum, dailyVolumes[i + 1])
                isLastDay == i = Len(daily) - 1
                nextDayIsInNewWeek ==
                    ~isLastDay /\ daily[i + 2][1] >= currentWeekStartTime + 7
            IN  IF isLastDay \/ nextDayIsInNewWeek
                THEN [cur |-> NoBucket,
                      out |-> [timestamps |-> Append(st.out.timestamps,
                                                     currentWeekStartTime),
                               prices  |-> Append(st.out.prices, price),
                               volumes |-> Append(st.out.volumes, dailyVolumes[i + 1])]]
                ELSE [cur |-> [open |-> TRUE, start |-> currentWeekStartTime,
                               sum |-> currentWeekVolumeSum],
                      out |-> st.out]
    IN  ForRange(Step, [cur |-> NoBucket, out |-> EmptyResample], 0, Len(daily)).out

resampleToWeeklyInternal(dailyPricesWithTimestamps, dailyVolumes) ==
    IF Len(dailyPricesWithTimestamps) # Len(dailyVolumes)
       \/ Len(dailyPricesWithTimestamps) = 0
    THEN EmptyResample
    ELSE
    LET daily == dailyPricesWithTimestamps
        Step(st, i) ==
            LET timestamp == daily[i + 1][1]
                price     == daily[i + 1][2]
                currentWeekStartTime ==
                    IF st.cur.open THEN st.cur.start ELSE WeekStart(timestamp)
                currentWeekVolumeSum == RAdd(st.cur.sum, dailyVolumes[i + 1])
                isLastDay == i = Len(daily) - 1
                nextDayIsInNewWeek ==
                    ~isLastDay /\ daily[i + 2][1] >= currentWeekStartTime + 7
            IN  IF isLastDay \/ nextDayIsInNewWeek
                THEN [cur |-> NoBucket,
                      out |-> [timestamps |-> Append(st.out.timestamps,
                                                     currentWeekStartTime),
                               prices  |-> Append(st.out.prices, price),
                               volumes |-> Append(st.out.volumes, currentWeekVolumeSum)]]
                ELSE [cur |-> [open |-> TRUE, start |-> currentWeekStartTime,
                               sum |-> currentWeekVolumeSum],
                      out |-> st.out]
    IN  ForRange(Step, [cur |-> NoBucket, out |-> EmptyResample], 0, Len(daily)).out

resampleToMonthlyInternal_MonthOnly(dailyPricesWithTimestamps, dailyVolumes) ==
    IF Len(dailyPricesWithTimestamps) # Len(dailyVolumes)
       \/ Len(dailyPricesWithTimestamps) = 0
    THEN EmptyResample
    ELSE
    LET daily == dailyPricesWithTimestamps
        Step(st, i) ==
            LET timestamp == daily[i + 1][1]
                price     == daily[i + 1][2]
                currentMonthStartTime ==
                    IF st.cur.open THEN st.cur.start
                    ELSE MonthStart(getFullYear(timestamp), getMonth(timestamp))
                currentMonthVolumeSum == RAdd(st.cur.sum, dailyVolumes[i + 1])
                isLastDay == i = Len(daily) - 1
                nextDayIsInNewMonth ==
                    /\ ~isLastDay
                    /\ getMonth(daily[i + 2][1]) > getMonth(currentMonthStartTime)
            IN  IF isLastDay \/ nextDayIsInNewMonth
                THEN [cur |-> NoBucket,
                      out |-> [timestamps |-> Append(st.out.timestamps,
                                                     currentMonthStartTime),
                               prices  |-> Append(st.out.prices, price),
                               volumes |-> Append(st.out.volumes, currentMonthVolumeSum)]]
                ELSE [cur |-> [open |-> TRUE, start |-> currentMonthStartTime,
                               sum |-> currentMonthVolumeSum],
                      out |-> st.out]
    IN  ForRange(Step, [cur |-> NoBucket, out |-> EmptyResample], 0, Len(daily)).out

resampleToMonthlyInternal(dailyPricesWithTimestamps, dailyVolumes) ==
    IF Len(dailyPricesWithTimestamps) # Len(dailyVolumes)
       \/ Len(dailyPricesWithTimestamps) = 0
    THEN EmptyResample
    ELSE
    LET daily == dailyPricesWithTimestamps
        Step(st, i) ==
            LET timestamp == daily[i + 1][1]
                price     == daily[i + 1][2]
                currentMonthStartTime ==
                    IF st.cur.open THEN st.cur.start
                    ELSE MonthStart(getFullYear(timestamp), getMonth(timestamp))
                currentMonthVolumeSum == RAdd(st.cur.sum, dailyVolumes[i + 1])
                isLastDay == i = Len(daily) - 1
                nextDayIsInNewMonth ==
                    /\ ~isLastDay
                    /\ \/ getFullYear(daily[i + 2][1]) > getFullYear(currentMonthStartTime)
                       \/ getMonth(daily[i + 2][1]) > getMonth(currentMonthStartTime)
            IN  IF isLastDay \/ nextDayIsInNewMonth
                THEN [cur |-> NoBucket,
                      out |-> [timestamps |-> Append(st.out.timestamps,
                                                     currentMonthStartTime),
                               prices  |-> Append(st.out.prices, price),
                               volumes |-> Append(st.out.volumes, currentMonthVolumeSum)]]
                ELSE [cur |-> [open |-> TRUE, start |-> currentMonthStartTime,
                               sum |-> currentMonthVolumeSum],
                      out |-> st.out]
    IN  ForRange(Step, [cur |-> NoBucket, out |-> EmptyResample], 0, Len(daily)).out

----------------------------------------------------------------------------
(* useTechnicalAnalysis.js: constants and calculateIndicatorsForPeriod *)

SMA_PERIODS == <<20, 50, 200>>
EMA_PERIODS == <<20, 50, 200>>
RSI_PERIOD == 14
RSI_OVERSOLD_THRESHOLD == 30
RSI_OVERBOUGHT_THRESHOLD == 70
BOLLINGER_PERIOD == 20
MACD_FAST_PERIOD == 12
MACD_SLOW_PERIOD == 26
MACD_SIGNAL_PERIOD == 9
VWAP_PERIOD == 20
VOLUME_SMA_PERIOD == 20

Range(seq) == {seq[i] : i \in 1..Len(seq)}

\* null converts to 0 in a relational comparison; undefined and NaN compare false
ToNumber(x) == IF x = Null THEN R(0) ELSE x
JsGt(a, b) == IsNum(ToNumber(a)) /\ IsNum(ToNumber(b)) /\ RGt(ToNumber(a), ToNumber(b))
JsLt(a, b) == JsGt(b, a)

\* arr.length > 0 ? arr[arr.length - 1] : null
LatestOrNull(arr) == IF Length(arr) > 0 THEN arr[Length(arr)] ELSE Null

\* arr[arr.length - 1] of an array with an entry, computing that entry alone.
\* It stands for the guarded forms (arr.length > 0 ? arr[arr.length - 1] : null)
\* where the caller has already compared the input's length with the period:
\* the SMA, the EMA and the middle band of n >= period points have
\* n - period + 1 entries, the VWAP and the volume SMA have n.
Latest(arr) == arr[Length(arr)]

\* parseFloat(x.toFixed(2)) for x >= 0: x rounded to hundredths, halves up
ToFixed2(x) ==
    LET y == RMul(x, R(100)) IN Norm((2 * y[1] + y[2]) \div (2 * y[2]), 100)

\* currentPrice !== null && latest !== null ? (currentPrice > latest ? ... : ...) : ''
PriceColorClass(currentPrice, latest) ==
    IF currentPrice # Null /\ latest # Null
    THEN IF JsGt(currentPrice, latest) THEN "change-positive-text"
         ELSE "change-negative-text"
    ELSE ""

NoMA == [value |-> Null, colorClass |-> ""]
NoRSI == [set |-> FALSE, value |-> Null, colorClass |-> ""]
NoBands == [set |-> FALSE, middle |-> Null, colorClass |-> ""]
NoMACDSlot == [set |-> FALSE, macd |-> Null, signal |-> Null, histogram |-> Null]

\* a bundle that holds only { error } (hasSlots FALSE, error # "") or is {} (error = "")
BundleWithoutSlots(message) ==
    [hasSlots |-> FALSE, error |-> message,
     smas |-> [p \in Range(SMA_PERIODS) |-> NoMA],
     emas |-> [p \in Range(EMA_PERIODS) |-> NoMA],
     rsi |-> NoRSI, bollingerBands |-> NoBands, macd |-> NoMACDSlot,
     vwap |-> Undefined, volumeSMA |-> Undefined, obv |-> Undefined,
     hasObvFullSeries |-> FALSE, obvFullSeries |-> <<>>,
     currentPriceForAnalysis |-> Undefined]

EmptyBundle == BundleWithoutSlots("")

MovingAverageSlot(result, currentPrice) ==
    LET latest == Latest(result)
    IN  [value |-> latest, colorClass |-> PriceColorClass(currentPrice, latest)]

\* indicators.rsi = { value: parseFloat(latestRSI).toFixed(2), colorClass: rsiColor }
RSISlotOf(latestRSI) ==
    [set |-> TRUE, value |-> ToFixed2(latestRSI),
     colorClass |->
        IF RGt(latestRSI, R(RSI_OVERBOUGHT_THRESHOLD)) THEN "change-negative-text"
        ELSE IF RLt(latestRSI, R(RSI_OVERSOLD_THRESHOLD)) THEN "change-positive-text"
        ELSE ""]

\* if (rsiResult.length > 0) indicators.rsi = ...
RSISlotFrom(rsiResult) ==
    IF Len(rsiResult) > 0 THEN RSISlotOf(rsiResult[Len(rsiResult)]) ELSE NoRSI

RSISlot(prices) ==
    IF Len(prices) >= RSI_PERIOD + 1
    THEN RSISlotFrom(calculateRSIInternal(prices, RSI_PERIOD))
    ELSE NoRSI

\* the middle band is the SMA; the upper and lower bands (middle +/- 2 standard
\* deviations, a square root) are display values that no modelled code reads
BollingerSlotOf(latestMiddle, currentPrice) ==
    [set |-> TRUE, middle |-> ToFixed2(latestMiddle),
     colorClass |-> PriceColorClass(currentPrice, latestMiddle)]

BollingerSlot(prices, currentPrice) ==
    IF Len(prices) >= BOLLINGER_PERIOD
    THEN BollingerSlotOf(Latest(calculateSMAInternal(prices, BOLLINGER_PERIOD)),
                         currentPrice)
    ELSE NoBands

\* if (macdResult.macdLine.length > 0) indicators.macd = { macd, signal, histogram }
MACDSlotOf(macdResult) ==
    IF Len(macdResult.macdLine) > 0
    THEN [set |-> TRUE,
          macd      |-> At(macdResult.macdLine, Len(macdResult.macdLine) - 1),
          signal    |-> At(macdResult.signalLine, Len(macdResult.signalLine) - 1),
          histogram |-> At(macdResult.histogram, Len(macdResult.histogram) - 1)]
    ELSE NoMACDSlot

MACDSlot(prices) ==
    MACDSlotOf(calculateMACDInternal(prices, MACD_FAST_PERIOD, MACD_SLOW_PERIOD,
                                     MACD_SIGNAL_PERIOD))

\* indicators.obv and indicators.obvFullSeries, set only with volume data
OBVSlots(bundle, obvResult) ==
    [bundle EXCEPT !.obv = LatestOrNull(obvResult),
                   !.hasObvFullSeries = TRUE,
                   !.obvFullSeries = obvResult]

\* the indicators object before the volume-based indicators are added
PriceIndicators(prices, currentPrice) ==
    [hasSlots |-> TRUE, error |-> "",
     smas |-> [p \in Range(SMA_PERIODS) |->
                IF Len(prices) >= p
                THEN MovingAverageSlot(calculateSMAInternal(prices, p), currentPrice)
                ELSE NoMA],
     emas |-> [p \in Range(EMA_PERIODS) |->
                IF Len(prices) >= p
                THEN MovingAverageSlot(calculateEMAInternal(prices, p), currentPrice)
                ELSE NoMA],
     rsi |-> RSISlot(prices),
     bollingerBands |-> BollingerSlot(prices, currentPrice),
     macd |-> MACDSlot(prices),
     vwap |-> Null, volumeSMA |-> Null, obv |-> Null,
     hasObvFullSeries |-> FALSE, obvFullSeries |-> <<>>,
     currentPriceForAnalysis |-> Undefined]

\* if (volumes && volumes.length === prices.length) { vwap, volumeSMA, obv }
VolumeIndicators(bundle, prices, volumes) ==
    IF Len(volumes) # Len(prices) THEN bundle
    ELSE OBVSlots([bundle EXCEPT
                     !.vwap = IF Len(prices) >= VWAP_PERIOD
                              THEN Latest(calculateRollingVWAPInternal(
                                              prices, volumes, VWAP_PERIOD))
                              ELSE Null,
                     !.volumeSMA = IF Len(volumes) >= VOLUME_SMA_PERIOD
                                   THEN Latest(calculateVolumeSMAInternal(
                                                   volumes, VOLUME_SMA_PERIOD))
                                   ELSE Null],
                  calculateOBVInternal(prices, volumes))

calculateIndicatorsForPeriod(prices, volumes, currentPrice, periodType) ==
    IF Len(prices) = 0 THEN BundleWithoutSlots("No price data for " \o periodType)
    ELSE VolumeIndicators(PriceIndicators(prices, currentPrice), prices, volumes)

----------------------------------------------------------------------------
(* useTechnicalAnalysis.js: the analysis effect *)

\* the value the Map built from the volume dataset holds for a timestamp:
\* the last pair with that timestamp, undefined when there is none
MapGet(values, timestamp) ==
    LET hits == {i \in 1..Len(values) : values[i][1] = timestamp}
    IN  IF hits = {} THEN Undefined
        ELSE values[CHOOSE i \in hits : \A j \in hits : j <= i][2]

\* the loop over rawPriceValues: the points whose price and volume both parse
CombineDaily(rawPriceValues, rawVolumeValues) ==
    LET Step(combinedDailyData, i) ==
            LET timestamp == rawPriceValues[i + 1][1]
                price     == rawPriceValues[i + 1][2]
                rawVolume == MapGet(rawVolumeValues, timestamp)
                volume    == IF rawVolume # Undefined THEN rawVolume ELSE NaN
            IN  IF IsNum(price) /\ IsNum(volume)
                THEN Append(combinedDailyData,
                            [timestamp |-> timestamp, price |-> price, volume |-> volume])
                ELSE combinedDailyData
    IN  ForRange(Step, <<>>, 0, Len(rawPriceValues))

\* getSafe(...) of nse, bse, dayHigh; parseFloat; NaN becomes null.
\* A field is Null when getSafe yields the N/A default, NaN when it does not parse.
CurrentStockPrice(sd) ==
    LET num == IF sd.nse # Null THEN sd.nse
               ELSE IF sd.bse # Null THEN sd.bse
               ELSE IF sd.dayHigh # Null THEN sd.dayHigh
               ELSE Null
    IN  IF IsNum(num) THEN num ELSE Null

NoSignal == [set |-> FALSE, signal |-> "", scores |-> [bullish |-> 0, bearish |-> 0],
             reasons |-> <<>>]

NoAnalysis == [set |-> FALSE, daily |-> EmptyBundle, weekly |-> EmptyBundle,
               monthly |-> EmptyBundle, error |-> ""]

\* const { weeklyPrices, weeklyVolumes } = resampled (monthly alike)
PricesAndVolumes(resampled) ==
    [prices |-> resampled.prices, volumes |-> resampled.volumes]

\* the closing prices and volumes of the three timeframes: the daily series and
\* its weekly and monthly resamplings
TimeframeSeries(combinedDailyData) ==
    LET n == Len(combinedDailyData)
        dailyClosingPrices == [i \in 1..n |-> combinedDailyData[i].price]
        dailyVolumesForIndicators == [i \in 1..n |-> combinedDailyData[i].volume]
        dailyPricesWithTimestampsForResampling ==
            [i \in 1..n |-> <<combinedDailyData[i].timestamp,
                              combinedDailyData[i].price>>]
    IN  [daily   |-> [prices |-> dailyClosingPrices,
                      volumes |-> dailyVolumesForIndicators],
         weekly  |-> PricesAndVolumes(resampleToWeeklyInternal(
                         dailyPricesWithTimestampsForResampling,
                         dailyVolumesForIndicators)),
         monthly |-> PricesAndVolumes(resampleToMonthlyInternal(
                         dailyPricesWithTimestampsForResampling,
                         dailyVolumesForIndicators))]

\* dailyIndicators.currentPriceForAnalysis = currentStockPriceForAnalysisNum
WithCurrentPrice(dailyIndicators, currentStockPriceForAnalysisNum) ==
    [dailyIndicators EXCEPT !.currentPriceForAnalysis = currentStockPriceForAnalysisNum]

\* the three calls of calculateIndicatorsForPeriod
AnalyseSeries(series, currentStockPriceForAnalysisNum) ==
    [threw |-> FALSE,
     daily |-> WithCurrentPrice(
                   calculateIndicatorsForPeriod(series.daily.prices,
                       series.daily.volumes, currentStockPriceForAnalysisNum, "Daily"),
                   currentStockPriceForAnalysisNum),
     weekly |-> calculateIndicatorsForPeriod(series.weekly.prices,
                    series.weekly.volumes, currentStockPriceForAnalysisNum, "Weekly"),
     monthly |-> calculateIndicatorsForPeriod(series.monthly.prices,
                     series.monthly.volumes, currentStockPriceForAnalysisNum, "Monthly")]

\* the try block from the check of combinedDailyData on
AnalyseCombined(combinedDailyData, sd) ==
    IF Len(combinedDailyData) = 0
    THEN [threw |-> TRUE, message |->
          "No valid combined daily price and volume data points found after cleaning."]
    ELSE AnalyseSeries(TimeframeSeries(combinedDailyData), CurrentStockPrice(sd))

\* the try block: the bundles, or the message of the Error it throws
TryAnalysis ==
    IF ~historicalData.hasValues
    THEN [threw |-> TRUE, message |-> "Price data is missing or invalid."]
    ELSE AnalyseCombined(CombineDaily(historicalData.values,
                                      IF historicalData.hasVolumeDataset
                                      THEN historicalData.volumeValues ELSE <<>>),
                         stockData)

\* setAnalysisData(newAnalysisData), or setAnalysisData({ ... }) of the catch block
CatchAnalysis(result) ==
    IF result.threw
    THEN [set |-> TRUE,
          daily |-> BundleWithoutSlots("Error during daily analysis: "
                                       \o result.message),
          weekly |-> BundleWithoutSlots("Daily analysis failed"),
          monthly |-> BundleWithoutSlots("Daily analysis failed"),
          error |-> "Overall analysis error: " \o result.message]
    ELSE [set |-> TRUE, daily |-> result.daily, weekly |-> result.weekly,
          monthly |-> result.monthly, error |-> ""]

\* try { ... setAnalysisData(newAnalysisData) } catch (e) { setAnalysisData({ ... }) }
TryCatchAnalysis == CatchAnalysis(TryAnalysis)

\* metric === 'price' || metric === 'default' || !metric, lower-cased
IsPriceData ==
    /\ historicalData.loaded
    /\ historicalData.hasDatasets
    /\ historicalData.metric \in {"price", "default", ""}

\* useEffect(..., [activeTab, historicalData, stockData, historicalErrorFromApi, ...])
AnalysisEffect ==
    /\ pc = "analysis"
    /\ pc' = "signal"
    /\ UNCHANGED <<libVars, appVars, activeTab, historicalErrorFromApi, stockData,
                   historicalData, signalLocals>>
    /\ IF activeTab # "analysis"
       THEN UNCHANGED <<analysisData, technicalSignal, analysisLoading>>
       ELSE IF historicalErrorFromApi # ""
       THEN /\ analysisData' = [set |-> TRUE,
                   daily |-> BundleWithoutSlots("Failed to load historical data: "
                                                \o historicalErrorFromApi),
                   weekly |-> EmptyBundle, monthly |-> EmptyBundle, error |-> ""]
            /\ technicalSignal' = NoSignal
            /\ analysisLoading' = FALSE
       ELSE IF ~stockData.loaded
       THEN /\ analysisData' = [set |-> TRUE,
                   daily |-> BundleWithoutSlots("Stock data not available."),
                   weekly |-> EmptyBundle, monthly |-> EmptyBundle, error |-> ""]
            /\ technicalSignal' = NoSignal
            /\ analysisLoading' = FALSE
       ELSE IF ~historicalData.loaded \/ ~IsPriceData
       THEN /\ analysisLoading' = TRUE
            /\ analysisData' = [set |-> TRUE,
                   daily |-> BundleWithoutSlots(
                                "Loading historical price and volume data..."),
                   weekly |-> BundleWithoutSlots("Waiting for daily data..."),
                   monthly |-> BundleWithoutSlots("Waiting for daily data..."),
                   error |-> ""]
            /\ technicalSignal' = NoSignal
       ELSE /\ analysisData' = TryCatchAnalysis
            /\ analysisLoading' = FALSE
            /\ UNCHANGED technicalSignal

----------------------------------------------------------------------------
(* useTechnicalAnalysis.js: the signal effect.                              *)
(* Scores are counted in quarter points: every vote is a multiple of 0.5    *)
(* and every weight (1, 1.5, 2) a multiple of 0.5, so a vote v * weight is  *)
(* (2v) * (2 weight) quarters, and the floating-point sums are exact.       *)

\* { name, data, weight }: weight2 is twice the weight
timeframes ==
    <<[name |-> "Daily",   weight2 |-> 2],
      [name |-> "Weekly",  weight2 |-> 3],
      [name |-> "Monthly", weight2 |-> 4]>>

TimeframeData(ad, name) ==
    IF name = "Daily" THEN ad.daily
    ELSE IF name = "Weekly" THEN ad.weekly ELSE ad.monthly

Reason(tfName, text, period) == [tf |-> tfName, text |-> text, period |-> period]
Message(text) == Reason("", text, 0)

\* totalBullishScore += vote * tfWeight; signalReasons.push(reason); vote2 = 2 * vote
Bullish(acc, tf, vote2, text, period) ==
    [acc EXCEPT !.bullish = @ + vote2 * tf.weight2,
                !.reasons = Append(@, Reason(tf.name, text, period))]

Bearish(acc, tf, vote2, text, period) ==
    [acc EXCEPT !.bearish = @ + vote2 * tf.weight2,
                !.reasons = Append(@, Reason(tf.name, text, period))]

\* as ScoreMovingAverages, but a price equal to the average votes for neither side
RECURSIVE ScoreMovingAverages_Abstain(_, _, _, _, _, _, _)
ScoreMovingAverages_Abstain(acc, tf, data, slots, periods, label, currentPrice) ==
    IF periods = <<>> THEN acc
    ELSE LET p    == periods[Len(periods)]
             prev == ScoreMovingAverages_Abstain(acc, tf, data, slots,
                         SubSeq(periods, 1, Len(periods) - 1), label, currentPrice)
         IN  IF data.hasSlots /\ slots[p].value # Null
             THEN IF JsGt(currentPrice, slots[p].value)
                  THEN Bullish(prev, tf, 2, "Price > " \o label, p)
                  ELSE IF JsLt(currentPrice, slots[p].value)
                  THEN Bearish(prev, tf, 2, "Price < " \o label, p)
                  ELSE prev
             ELSE prev

\* one pass of SMA_PERIODS.forEach / EMA_PERIODS.forEach, periods[1..k]
RECURSIVE ScoreMovingAverages(_, _, _, _, _, _, _)
ScoreMovingAverages(acc, tf, data, slots, periods, label, currentPrice) ==
    IF periods = <<>> THEN acc
    ELSE LET p    == periods[Len(periods)]
             prev == ScoreMovingAverages(acc, tf, data, slots,
                         SubSeq(periods, 1, Len(periods) - 1), label, currentPrice)
         IN  IF data.hasSlots /\ slots[p].value # Null
             THEN IF JsGt(currentPrice, slots[p].value)
                  THEN Bullish(prev, tf, 2, "Price > " \o label, p)
                  ELSE Bearish(prev, tf, 2, "Price < " \o label, p)
             ELSE prev

\* as ScoreMACD, but the histogram votes only when the lines do not
ScoreMACD_ElseIf(acc, tf, data) ==
    LET macd == data.macd
    IN  IF data.hasSlots /\ macd.set /\ macd.macd # Null /\ macd.signal # Null
        THEN IF JsGt(macd.macd, macd.signal)
             THEN Bullish(acc, tf, 4, "MACD Line above Signal Line", 0)
             ELSE IF JsLt(macd.macd, macd.signal)
             THEN Bearish(acc, tf, 4, "MACD Line below Signal Line", 0)
             ELSE IF macd.histogram # Null /\ JsGt(macd.histogram, R(0))
             THEN Bullish(acc, tf, 1, "MACD Histogram Positive", 0)
             ELSE IF macd.histogram # Null /\ JsLt(macd.histogram, R(0))
             THEN Bearish(acc, tf, 1, "MACD Histogram Negative", 0)
             ELSE acc
        ELSE acc

ScoreMACD(acc, tf, data) ==
    LET macd == data.macd
    IN  IF data.hasSlots /\ macd.set /\ macd.macd # Null /\ macd.signal # Null
        THEN LET a == IF JsGt(macd.macd, macd.signal)
                      THEN Bullish(acc, tf, 4, "MACD Line above Signal Line", 0)
                      ELSE acc
                 b == IF JsLt(macd.macd, macd.signal)
                      THEN Bearish(a, tf, 4, "MACD Line below Signal Line", 0)
                      ELSE a
                 c == IF macd.histogram # Null /\ JsGt(macd.histogram, R(0))
                      THEN Bullish(b, tf, 1, "MACD Histogram Positive", 0)
                      ELSE b
             IN  IF macd.histogram # Null /\ JsLt(macd.histogram, R(0))
                 THEN Bearish(c, tf, 1, "MACD Histogram Negative", 0)
                 ELSE c
        ELSE acc

ScoreRSI(acc, tf, data) ==
    IF data.hasSlots /\ data.rsi.set /\ data.rsi.value # Null
    THEN LET rsiVal == data.rsi.value
             a == IF JsLt(rsiVal, R(RSI_OVERSOLD_THRESHOLD))
                  THEN Bullish(acc, tf, 3, "RSI < 30 (Oversold)", 0)
                  ELSE acc
         IN  IF JsGt(rsiVal, R(RSI_OVERBOUGHT_THRESHOLD))
             THEN Bearish(a, tf, 3, "RSI > 70 (Overbought)", 0)
             ELSE a
    ELSE acc

\* as ScoreVWAP, without the test for a null VWAP
ScoreVWAP_NoNullCheck(acc, tf, data, currentPrice) ==
    LET a == IF JsGt(currentPrice, data.vwap)
             THEN Bullish(acc, tf, 2, "Price > VWAP (20)", 0)
             ELSE acc
    IN  IF JsLt(currentPrice, data.vwap)
        THEN Bearish(a, tf, 2, "Price < VWAP (20)", 0)
        ELSE a

ScoreVWAP(acc, tf, data, currentPrice) ==
    IF data.vwap # Null
    THEN LET a == IF JsGt(currentPrice, data.vwap)
                  THEN Bullish(acc, tf, 2, "Price > VWAP (20)", 0)
                  ELSE acc
         IN  IF JsLt(currentPrice, data.vwap)
             THEN Bearish(a, tf, 2, "Price < VWAP (20)", 0)
             ELSE a
    ELSE acc

ScoreOBV(acc, tf, data) ==
    IF data.hasObvFullSeries /\ Len(data.obvFullSeries) > VOLUME_SMA_PERIOD
    THEN LET obvSma == calculateSMAInternal(data.obvFullSeries, VOLUME_SMA_PERIOD)
             latestObv == data.obvFullSeries[Len(data.obvFullSeries)]
             latestObvSma == Latest(obvSma)
         IN  IF latestObvSma # Null /\ JsGt(latestObv, latestObvSma)
             THEN Bullish(acc, tf, 2, "OBV trending up (above its 20-period SMA)", 0)
             ELSE IF latestObvSma # Null /\ JsLt(latestObv, latestObvSma)
             THEN Bearish(acc, tf, 2, "OBV trending down (below its 20-period SMA)", 0)
             ELSE acc
    ELSE acc

\* the body of timeframes.forEach for one timeframe
ScoreTimeframe(acc, tf, ad, currentPrice) ==
    LET data == TimeframeData(ad, tf.name)
    IN  IF data.error # "" THEN acc
        ELSE ScoreOBV(
               ScoreVWAP(
                 ScoreRSI(
                   ScoreMACD(
                     ScoreMovingAverages(
                       ScoreMovingAverages(acc, tf, data, data.smas, SMA_PERIODS,
                                           "SMA", currentPrice),
                       tf, data, data.emas, EMA_PERIODS, "EMA", currentPrice),
                     tf, data),
                   tf, data),
                 tf, data, currentPrice),
               tf, data)

\* timeframes.forEach over tfs[1..k]
RECURSIVE ScoreTimeframes(_, _, _)
ScoreTimeframes(tfs, ad, currentPrice) ==
    IF tfs = <<>> THEN [bullish |-> 0, bearish |-> 0, reasons |-> <<>>]
    ELSE ScoreTimeframe(ScoreTimeframes(SubSeq(tfs, 1, Len(tfs) - 1), ad, currentPrice),
                        tfs[Len(tfs)], ad, currentPrice)

\* as FinalSignal, without the 10 % margin
FinalSignal_NoMargin(totalBullishScore, totalBearishScore, signalReasons) ==
    IF Len(signalReasons) = 0 /\ totalBullishScore = 0 /\ totalBearishScore = 0
    THEN "Not Enough Data for Signal"
    ELSE IF totalBullishScore > totalBearishScore THEN "Bullish"
    ELSE IF totalBearishScore > totalBullishScore THEN "Bearish"
    ELSE "Neutral"

\* finalSignal: b > r * 1.1 on quarter counts is 10 b > 11 r
FinalSignal(totalBullishScore, totalBearishScore, signalReasons) ==
    IF Len(signalReasons) = 0 /\ totalBullishScore = 0 /\ totalBearishScore = 0
    THEN "Not Enough Data for Signal"
    ELSE IF 10 * totalBullishScore > 11 * totalBearishScore THEN "Bullish"
    ELSE IF 10 * totalBearishScore > 11 * totalBullishScore THEN "Bearish"
    ELSE "Neutral"

\* parseFloat(score.toFixed(1)) in tenths, for a score in quarters: halves round up
ToFixed1(quarters) == (5 * quarters + 1) \div 2

\* as DisplayedReasons, with slice(-15): the last 15 reasons
DisplayedReasons_Last15(signalReasons) ==
    IF Len(signalReasons) > 0
    THEN SubSeq(signalReasons,
                IF Len(signalReasons) < 15 THEN 1 ELSE Len(signalReasons) - 14,
                Len(signalReasons))
    ELSE <<Message("No strong directional signals based on current rules.")>>

\* signalReasons.length > 0 ? signalReasons.slice(0, 15) : [...]
DisplayedReasons(signalReasons) ==
    IF Len(signalReasons) > 0
    THEN SubSeq(signalReasons, 1, IF Len(signalReasons) < 15 THEN Len(signalReasons) ELSE 15)
    ELSE <<Message("No strong directional signals based on current rules.")>>

NotScored == [scored |-> FALSE, totalBullishScore |-> 0, totalBearishScore |-> 0,
              signalReasons |-> <<>>]

PlainSignal(signal, reason) ==
    [set |-> TRUE, signal |-> signal, scores |-> [bullish |-> 0, bearish |-> 0],
     reasons |-> <<Message(reason)>>]

\* !x for the price: null, undefined, NaN and 0 are falsy
Falsy(x) == ~IsNum(x) \/ x = R(0)

\* totalBullishScore, totalBearishScore and signalReasons after timeframes.forEach
ScoredLocals ==
    LET currentPrice == analysisData.daily.currentPriceForAnalysis
        acc == ScoreTimeframes(timeframes, analysisData, currentPrice)
    IN  [scored |-> TRUE, totalBullishScore |-> acc.bullish,
         totalBearishScore |-> acc.bearish, signalReasons |-> acc.reasons]

\* useEffect(..., [analysisData, activeTab, memoizedCalculateSMA]); it runs again
\* after the analysis effect has set analysisData, and that run is the one modelled
SignalEffect ==
    /\ pc = "signal"
    /\ pc' = "idle"
    /\ UNCHANGED <<libVars, appVars, activeTab, historicalErrorFromApi, stockData,
                   historicalData, analysisData, analysisLoading>>
    /\ IF activeTab # "analysis" \/ ~analysisData.set \/ analysisData.error # ""
       THEN /\ technicalSignal' =
                 IF analysisData.set /\ analysisData.error # ""
                 THEN PlainSignal(analysisData.error, analysisData.error)
                 ELSE PlainSignal("Signal Pending...", "Waiting for data...")
            /\ signalLocals' = NotScored
       ELSE IF analysisData.daily.error # ""
       THEN /\ technicalSignal' = PlainSignal("Analysis Error", analysisData.daily.error)
            /\ signalLocals' = NotScored
       ELSE IF Falsy(analysisData.daily.currentPriceForAnalysis)
       THEN /\ technicalSignal' = PlainSignal("Signal Pending...",
                     "Current price not available for signal generation.")
            /\ signalLocals' = NotScored
       ELSE /\ signalLocals' = ScoredLocals
            /\ technicalSignal' =
                 [set |-> TRUE,
                  signal |-> FinalSignal(signalLocals'.totalBullishScore,
                                         signalLocals'.totalBearishScore,
                                         signalLocals'.signalReasons),
                  scores |-> [bullish |-> ToFixed1(signalLocals'.totalBullishScore),
                              bearish |-> ToFixed1(signalLocals'.totalBearishScore)],
                  reasons |-> DisplayedReasons(signalLocals'.signalReasons)]

\* the user selects another tab: both effects run again
SetActiveTab ==
    /\ pc = "idle"
    /\ activeTab' = IF activeTab = "analysis" THEN "companyDetails" ELSE "analysis"
    /\ pc' = "analysis"
    /\ UNCHANGED <<libVars, appVars, historicalErrorFromApi, stockData, historicalData,
                   analysisData, technicalSignal, analysisLoading, signalLocals>>

----------------------------------------------------------------------------
(* The hook on bounded inputs *)

StartDay == 18262      \* 2020-01-01, a Wednesday
BasePrice == 100
TailStep == 20
MaxTail == 1
LenSlack == 1
DailyVolume == 10

NoHistoricalData ==
    [loaded |-> FALSE, hasDatasets |-> FALSE, metric |-> "", hasValues |-> FALSE,
     values |-> <<>>, hasVolumeDataset |-> FALSE, volumeValues |-> <<>>]

NoStockData == [loaded |-> FALSE, nse |-> Null, bse |-> Null, dayHigh |-> Null]

NoLibCall == [fn |-> "none"]

\* the hook before its first effect has run, with no library call under test
HookIdle ==
    /\ activeTab = "companyDetails"
    /\ historicalErrorFromApi = ""
    /\ stockData = NoStockData
    /\ historicalData = NoHistoricalData
    /\ analysisData = NoAnalysis
    /\ technicalSignal = NoSignal
    /\ analysisLoading = FALSE
    /\ signalLocals = NotScored
    /\ pc = "idle"

HookUnmounted == HookIdle /\ AppUnmounted

\* the series lengths around each indicator's minimum
LengthThresholds ==
    {1, RSI_PERIOD + 1, VWAP_PERIOD, MACD_SLOW_PERIOD + MACD_SIGNAL_PERIOD - 1}
    \cup Range(SMA_PERIODS)

SeriesLengths ==
    {t + d : t \in LengthThresholds, d \in (-1)..LenSlack} \ {0}

\* days between consecutive points: every day, every week, every 31 days
SampleGaps == {1, 7, 31}

RECURSIVE TailsOfLen(_)
TailsOfLen(k) ==
    IF k = 0 THEN {<<>>}
    ELSE {Append(t, d) : t \in TailsOfLen(k - 1), d \in {-TailStep, TailStep}}

PriceTails == UNION {TailsOfLen(k) : k \in 0..MaxTail}

\* n points, gap days apart, at BasePrice except for the last Len(tail) points
PriceValues(n, gap, tail) ==
    [i \in 1..n |->
        <<StartDay + (i - 1) * gap,
          IF i > n - Len(tail) THEN R(BasePrice + tail[i - (n - Len(tail))])
          ELSE R(BasePrice)>>]

\* the volume dataset: "full" has DailyVolume on every day, "zero" has 0,
\* "late" misses the first day
VolumeValues(prices, kind) ==
    IF kind = "late" THEN [i \in 1..(Len(prices) - 1) |-> <<prices[i + 1][1], R(DailyVolume)>>]
    ELSE [i \in 1..Len(prices) |->
            <<prices[i][1], IF kind = "zero" THEN R(0) ELSE R(DailyVolume)>>]

\* the /historical response for a price series of n points with its volume dataset
SeriesResponse(n, gap, tail, kind) ==
    [loaded |-> TRUE, hasDatasets |-> TRUE, metric |-> "price", hasValues |-> TRUE,
     values |-> PriceValues(n, gap, tail),
     hasVolumeDataset |-> kind # "none",
     volumeValues |-> IF kind = "none" THEN <<>>
                      ELSE VolumeValues(PriceValues(n, gap, tail), kind)]

\* the lengths around the minimum of the volume indicators
VolumeLengths == {VWAP_PERIOD + d : d \in (-1)..LenSlack}

PriceResponses ==
    {SeriesResponse(n, gap, tail, "full") :
        n \in SeriesLengths, gap \in SampleGaps, tail \in PriceTails}
    \cup {SeriesResponse(n, 1, tail, kind) :
        n \in VolumeLengths, tail \in PriceTails, kind \in {"zero", "late", "none"}}

\* responses that are not loaded, hold another metric, or hold no usable price
OtherResponses ==
    {NoHistoricalData,
     [NoHistoricalData EXCEPT !.loaded = TRUE],
     [NoHistoricalData EXCEPT !.loaded = TRUE, !.hasDatasets = TRUE, !.metric = "volume"],
     [NoHistoricalData EXCEPT !.loaded = TRUE, !.hasDatasets = TRUE, !.metric = "price"],
     [NoHistoricalData EXCEPT !.loaded = TRUE, !.hasDatasets = TRUE, !.metric = "price",
                              !.hasValues = TRUE,
                              !.values = <<<<StartDay, NaN>>, <<StartDay + 1, NaN>>>>]}

\* a quote whose NSE price is the series' BasePrice
QuotedStock == [loaded |-> TRUE, nse |-> R(BasePrice), bse |-> Null, dayHigh |-> Null]

StockDataInputs ==
    {NoStockData, QuotedStock,
     [loaded |-> TRUE, nse |-> Null, bse |-> R(BasePrice + 1), dayHigh |-> Null],
     [loaded |-> TRUE, nse |-> Null, bse |-> Null, dayHigh |-> Null],
     [loaded |-> TRUE, nse |-> NaN, bse |-> R(BasePrice), dayHigh |-> Null],
     [loaded |-> TRUE, nse |-> R(0), bse |-> R(BasePrice), dayHigh |-> Null]}

\* the props the hook is mounted with
HookInputs ==
    {[historicalData |-> h, stockData |-> QuotedStock, historicalErrorFromApi |-> ""] :
        h \in PriceResponses}
    \cup [historicalData : OtherResponses
                            \cup {SeriesResponse(VWAP_PERIOD + 1, 1, <<>>, "full")},
          stockData : StockDataInputs,
          historicalErrorFromApi : {"", "HTTP 500"}]

\* useState('companyDetails') in App.js; useState(null) for the hook's data
Init ==
    /\ AppUnmounted
    /\ libCall = NoLibCall
    /\ libOut = Pending
    /\ activeTab = "companyDetails"
    /\ \E props \in HookInputs :
          /\ historicalData = props.historicalData
          /\ stockData = props.stockData
          /\ historicalErrorFromApi = props.historicalErrorFromApi
    /\ analysisData = NoAnalysis
    /\ technicalSignal = NoSignal
    /\ analysisLoading = FALSE
    /\ signalLocals = NotScored
    /\ pc = "analysis"

Next == AnalysisEffect \/ SignalEffect \/ SetActiveTab

Spec == Init /\ [][Next]_vars

----------------------------------------------------------------------------
(* The signal effect on bounded bundles.  The effect reads only activeTab   *)
(* and analysisData, so analysisData is drawn from bundles whose slots      *)
(* hold values below, at and above the price and the thresholds.            *)

ScorerPrice == 100
ScorerStep == 1

\* the latest values of the three periods: all null, all below, at or above the
\* price, and one of each
MAPatterns ==
    {[p \in Range(SMA_PERIODS) |-> v] :
        v \in {Null, R(ScorerPrice - ScorerStep), R(ScorerPrice),
               R(ScorerPrice + ScorerStep)}}
    \cup {[p \in Range(SMA_PERIODS) |->
             IF p = SMA_PERIODS[1] THEN R(ScorerPrice - ScorerStep)
             ELSE IF p = SMA_PERIODS[2] THEN Null
             ELSE R(ScorerPrice + ScorerStep)]}

MASlots(values) ==
    [p \in Range(SMA_PERIODS) |->
        [value |-> values[p],
         colorClass |-> PriceColorClass(R(ScorerPrice), values[p])]]

MACDSlots ==
    {NoMACDSlot}
    \cup [set : {TRUE},
          macd : {Null, R(-ScorerStep), R(0), R(ScorerStep)},
          signal : {Null, Undefined, R(0)},
          histogram : {Null, R(-ScorerStep), R(0), R(ScorerStep)}]

RSISlots ==
    {NoRSI}
    \cup {[set |-> TRUE, value |-> R(v), colorClass |-> ""] :
            v \in {RSI_OVERSOLD_THRESHOLD - ScorerStep, RSI_OVERSOLD_THRESHOLD,
                   RSI_OVERBOUGHT_THRESHOLD, RSI_OVERBOUGHT_THRESHOLD + ScorerStep}}

VWAPValues ==
    {Null, R(ScorerPrice - ScorerStep), R(ScorerPrice), R(ScorerPrice + ScorerStep)}

\* no series, or one of len values that is 0 up to its last value
OBVSeries ==
    {<<>>}
    \cup {[i \in 1..len |-> IF i = len THEN R(last) ELSE R(0)] :
            len \in {VOLUME_SMA_PERIOD, VOLUME_SMA_PERIOD + 1},
            last \in {-ScorerStep, 0, ScorerStep}}

\* the indicators object calculateIndicatorsForPeriod returns, with the given slots
ScorerBundle(smaValues, emaValues, macd, rsi, vwap, obvSeries) ==
    [hasSlots |-> TRUE, error |-> "",
     smas |-> MASlots(smaValues), emas |-> MASlots(emaValues),
     rsi |-> rsi, bollingerBands |-> NoBands, macd |-> macd,
     vwap |-> vwap, volumeSMA |-> Null,
     obv |-> IF obvSeries = <<>> THEN Null ELSE obvSeries[Len(obvSeries)],
     hasObvFullSeries |-> obvSeries # <<>>, obvFullSeries |-> obvSeries,
     currentPriceForAnalysis |-> Undefined]

NoMAValues == [p \in Range(SMA_PERIODS) |-> Null]

\* bundles that vary one indicator and leave the others null
RichBundles ==
    {ScorerBundle(s, e, NoMACDSlot, NoRSI, Null, <<>>) : s \in MAPatterns, e \in MAPatterns}
    \cup {ScorerBundle(NoMAValues, NoMAValues, m, NoRSI, Null, <<>>) : m \in MACDSlots}
    \cup {ScorerBundle(NoMAValues, NoMAValues, NoMACDSlot, r, Null, <<>>) : r \in RSISlots}
    \cup {ScorerBundle(NoMAValues, NoMAValues, NoMACDSlot, NoRSI, v, <<>>) : v \in VWAPValues}
    \cup {ScorerBundle(NoMAValues, NoMAValues, NoMACDSlot, NoRSI, Null, o) : o \in OBVSeries}

\* every indicator votes bullish
BullBundle ==
    ScorerBundle([p \in Range(SMA_PERIODS) |-> R(ScorerPrice - ScorerStep)],
                 [p \in Range(SMA_PERIODS) |-> R(ScorerPrice - ScorerStep)],
                 [set |-> TRUE, macd |-> R(ScorerStep), signal |-> R(0),
                  histogram |-> R(ScorerStep)],
                 [set |-> TRUE, value |-> R(RSI_OVERSOLD_THRESHOLD - ScorerStep),
                  colorClass |-> ""],
                 R(ScorerPrice - ScorerStep),
                 [i \in 1..(VOLUME_SMA_PERIOD + 1) |->
                    IF i = VOLUME_SMA_PERIOD + 1 THEN R(ScorerStep) ELSE R(0)])

\* every indicator votes bearish
BearBundle ==
    ScorerBundle([p \in Range(SMA_PERIODS) |-> R(ScorerPrice + ScorerStep)],
                 [p \in Range(SMA_PERIODS) |-> R(ScorerPrice + ScorerStep)],
                 [set |-> TRUE, macd |-> R(-ScorerStep), signal |-> R(0),
                  histogram |-> R(-ScorerStep)],
                 [set |-> TRUE, value |-> R(RSI_OVERBOUGHT_THRESHOLD + ScorerStep),
                  colorClass |-> ""],
                 R(ScorerPrice + ScorerStep),
                 [i \in 1..(VOLUME_SMA_PERIOD + 1) |->
                    IF i = VOLUME_SMA_PERIOD + 1 THEN R(-ScorerStep) ELSE R(0)])

PlainBundles ==
    {BundleWithoutSlots("No price data for Weekly"), EmptyBundle, BullBundle, BearBundle}

\* <<daily, weekly, monthly>>: one timeframe varies over RichBundles
BundleTriples ==
    (RichBundles \X PlainBundles \X PlainBundles)
    \cup (PlainBundles \X RichBundles \X PlainBundles)
    \cup (PlainBundles \X PlainBundles \X RichBundles)

\* dailyIndicators.currentPriceForAnalysis = currentStockPriceForAnalysisNum
ScorerInputs ==
    {[set |-> TRUE,
      daily |-> [t[1] EXCEPT !.currentPriceForAnalysis = R(ScorerPrice)],
      weekly |-> t[2], monthly |-> t[3], error |-> ""] : t \in BundleTriples}
    \cup {[set |-> TRUE,
           daily |-> [BullBundle EXCEPT !.currentPriceForAnalysis = price],
           weekly |-> BearBundle, monthly |-> BearBundle, error |-> ""] :
            price \in {Null, R(0)}}

InitScorer ==
    /\ AppUnmounted
    /\ libCall = NoLibCall
    /\ libOut = Pending
    /\ activeTab = "analysis"
    /\ historicalErrorFromApi = ""
    /\ stockData = QuotedStock
    /\ historicalData = NoHistoricalData
    /\ analysisData \in ScorerInputs
    /\ technicalSignal = NoSignal
    /\ analysisLoading = FALSE
    /\ signalLocals = NotScored
    /\ pc = "signal"

NextScorer == SignalEffect

SpecScorer == InitScorer /\ [][NextScorer]_vars

----------------------------------------------------------------------------
(* Library calls on bounded inputs *)

MaxLen == 4
MaxVal == 2
MaxPeriod == 3

RECURSIVE SeriesOfLen(_)
SeriesOfLen(n) ==
    IF n = 0 THEN {<<>>}
    ELSE {Append(s, R(v)) : s \in SeriesOfLen(n - 1), v \in 1..MaxVal}

\* the series 1, 2, 3, 4, 5
RampSeries == [i \in 1..5 |-> R(i)]

LibSeries == UNION {SeriesOfLen(n) : n \in 0..MaxLen} \cup {RampSeries}

LibCalls ==
    [fn : {"SMA", "EMA", "RSI"}, data : LibSeries, period : 1..MaxPeriod]
    \cup [fn : {"MACD"}, data : LibSeries, fastPeriod : 1..MaxPeriod,
          slowPeriod : 1..MaxPeriod, signalPeriod : 1..MaxPeriod]

InitLib ==
    /\ libCall \in LibCalls
    /\ libOut = Pending
    /\ HookUnmounted

CallSMA ==
    /\ ~libOut.done
    /\ libCall.fn = "SMA"
    /\ libOut' = Return(calculateSMAInternal(libCall.data, libCall.period))
    /\ UNCHANGED <<libCall, hookVars, appVars>>

CallEMA ==
    /\ ~libOut.done
    /\ libCall.fn = "EMA"
    /\ libOut' = Return(calculateEMAInternal(libCall.data, libCall.period))
    /\ UNCHANGED <<libCall, hookVars, appVars>>

CallRSI ==
    /\ ~libOut.done
    /\ libCall.fn = "RSI"
    /\ libOut' = Return(calculateRSIInternal(libCall.data, libCall.period))
    /\ UNCHANGED <<libCall, hookVars, appVars>>

CallMACD ==
    /\ ~libOut.done
    /\ libCall.fn = "MACD"
    /\ libOut' = Return(calculateMACDInternal(libCall.data, libCall.fastPeriod,
                                              libCall.slowPeriod, libCall.signalPeriod))
    /\ UNCHANGED <<libCall, hookVars, appVars>>

NextLib == CallSMA \/ CallEMA \/ CallRSI \/ CallMACD

SpecLib == InitLib /\ [][NextLib]_vars

Returned(fn) == libCall.fn = fn /\ libOut.done

----------------------------------------------------------------------------
(* Library calls on bounded price and volume series *)

MaxPoints == 3
MaxDays == 4

\* closing prices and volumes of a point; NaN and null are the invalid ones
PriceSamples == {R(1), R(2), NaN}
VolumeSamples == {R(0), R(1), Null}

RECURSIVE QuotesOfLen(_)
QuotesOfLen(n) ==
    IF n = 0 THEN {<<>>}
    ELSE {Append(q, <<p, v>>) :
            q \in QuotesOfLen(n - 1), p \in PriceSamples, v \in VolumeSamples}

Quotes == UNION {QuotesOfLen(n) : n \in 0..MaxPoints}

PricesOfQuotes(q) == [i \in 1..Len(q) |-> q[i][1]]
VolumesOfQuotes(q) == [i \in 1..Len(q) |-> q[i][2]]

\* prices and volumes of equal length, and volumes one entry short
VWAPCalls ==
    {[fn |-> "VWAP", prices |-> PricesOfQuotes(q), volumes |-> VolumesOfQuotes(q),
      period |-> p] : q \in Quotes, p \in 1..MaxPeriod}
    \cup {[fn |-> "VWAP", prices |-> PricesOfQuotes(q),
           volumes |-> SubSeq(VolumesOfQuotes(q), 1, Len(q) - 1),
           period |-> p] : q \in Quotes \ {<<>>}, p \in 1..MaxPeriod}

RECURSIVE TradesOfLen(_)
TradesOfLen(n) ==
    IF n = 0 THEN {<<>>}
    ELSE {Append(q, <<R(p), R(v)>>) :
            q \in TradesOfLen(n - 1), p \in 1..MaxPoints, v \in 1..MaxVal}

OBVCalls ==
    {[fn |-> "OBV", prices |-> PricesOfQuotes(q), volumes |-> VolumesOfQuotes(q)] :
        q \in UNION {TradesOfLen(n) : n \in 0..MaxPoints}}

\* first trading days: 2020-01-01 (a Wednesday), 2020-01-05 (a Sunday) and
\* 2020-12-28 (a Monday)
ResampleStarts == {StartDay, StartDay + 4, StartDay + 362}

\* days between consecutive trading days
ResampleGaps == {1, 2, 6, 7, 8, 30, 366}

RECURSIVE TradingDays(_)
TradingDays(n) ==
    IF n = 1 THEN {<<t>> : t \in ResampleStarts}
    ELSE {Append(d, d[Len(d)] + g) : d \in TradingDays(n - 1), g \in ResampleGaps}

RECURSIVE Pow2(_)
Pow2(k) == IF k = 0 THEN 1 ELSE 2 * Pow2(k - 1)

\* point i closes at BasePrice + i with volume 2^(i-1), so that a sum of volumes
\* tells which points it counts
ResampleCalls ==
    {[fn |-> f,
      dailyPricesWithTimestamps |-> [i \in 1..Len(d) |-> <<d[i], R(BasePrice + i)>>],
      dailyVolumes |-> [i \in 1..Len(d) |-> R(Pow2(i - 1))]] :
        f \in {"Weekly", "Monthly"},
        d \in UNION {TradingDays(n) : n \in 1..MaxDays}}

VolumeCalls == VWAPCalls \cup OBVCalls \cup ResampleCalls

InitVolume ==
    /\ libCall \in VolumeCalls
    /\ libOut = Pending
    /\ HookUnmounted

CallVWAP ==
    /\ ~libOut.done
    /\ libCall.fn = "VWAP"
    /\ libOut' = Return(calculateRollingVWAPInternal(libCall.prices, libCall.volumes,
                                                     libCall.period))
    /\ UNCHANGED <<libCall, hookVars, appVars>>

CallOBV ==
    /\ ~libOut.done
    /\ libCall.fn = "OBV"
    /\ libOut' = Return(calculateOBVInternal(libCall.prices, libCall.volumes))
    /\ UNCHANGED <<libCall, hookVars, appVars>>

CallWeekly ==
    /\ ~libOut.done
    /\ libCall.fn = "Weekly"
    /\ libOut' = Return(resampleToWeeklyInternal(libCall.dailyPricesWithTimestamps,
                                                 libCall.dailyVolumes))
    /\ UNCHANGED <<libCall, hookVars, appVars>>

CallMonthly ==
    /\ ~libOut.done
    /\ libCall.fn = "Monthly"
    /\ libOut' = Return(resampleToMonthlyInternal(libCall.dailyPricesWithTimestamps,
                                                  libCall.dailyVolumes))
    /\ UNCHANGED <<libCall, hookVars, appVars>>

NextVolume == CallVWAP \/ CallOBV \/ CallWeekly \/ CallMonthly

SpecVolume == InitVolume /\ [][NextVolume]_vars

----------------------------------------------------------------------------
(* Derived financial metrics (utils.js).  A raw statement value is a number,  *)
(* the 'N/A' default of findFinancialByYearInternal, or text that does not    *)
(* parse (NaN).  Formatted values are kept as numbers rounded to hundredths;  *)
(* the digit grouping of toLocaleString is left out.                          *)

NotAvailable == <<3, 0>>      \* DEFAULT_NA_STRING, 'N/A'
PosInfinity == <<4, 0>>       \* Infinity, displayed as "Infinity"
NegInfinity == <<5, 0>>       \* -Infinity

\* getSafeInternal(() => field, defaultValue): a missing, null or empty field
\* is <<>>
getSafeInternal(value, defaultValue) == IF value = <<>> THEN defaultValue ELSE value

\* parseFloat(value)
parseFloat(value) ==
    IF IsNum(value) \/ value \in {PosInfinity, NegInfinity} THEN value ELSE NaN

\* a / b of two parsed finite-or-NaN values
JsDivide(a, b) ==
    IF ~IsNum(a) \/ ~IsNum(b) THEN NaN
    ELSE IF b[1] = 0
    THEN (IF a[1] = 0 THEN NaN ELSE IF a[1] > 0 THEN PosInfinity ELSE NegInfinity)
    ELSE RDiv(a, b)

\* x * 100
Times100(x) == IF IsNum(x) THEN RMul(x, R(100)) ELSE x

\* a + b of two parsed finite-or-NaN values
JsPlus(a, b) == IF IsNum(a) /\ IsNum(b) THEN RAdd(a, b) ELSE NaN

\* num.toFixed(2)
NumToFixed2(num) ==
    IF ~IsNum(num) THEN num
    ELSE IF num[1] < 0 THEN RNeg(ToFixed2(RNeg(num))) ELSE ToFixed2(num)

\* num > 0 and num < 0 of a parsed value that is not NaN
IsPositive(num) == num = PosInfinity \/ (IsNum(num) /\ num[1] > 0)
IsNegative(num) == num = NegInfinity \/ (IsNum(num) /\ num[1] < 0)

formatPercentageInternal(value, colorOnPositiveNegative) ==
    IF parseFloat(value) = NaN \/ value = NotAvailable
    THEN [value |-> NotAvailable, unit |-> "", raw |-> NaN, colorClass |-> ""]
    ELSE [value |-> NumToFixed2(parseFloat(value)), unit |-> "%",
          raw |-> parseFloat(value),
          colorClass |->
             IF colorOnPositiveNegative /\ IsPositive(parseFloat(value))
             THEN "change-positive-text"
             ELSE IF colorOnPositiveNegative /\ IsNegative(parseFloat(value))
             THEN "change-negative-text" ELSE ""]

formatRatioInternal(value) ==
    IF parseFloat(value) = NaN \/ value = NotAvailable
    THEN [value |-> NotAvailable, unit |-> "", raw |-> NaN]
    ELSE [value |-> NumToFixed2(parseFloat(value)), unit |-> "x",
          raw |-> parseFloat(value)]

formatToCroresInternal(value) ==
    IF parseFloat(value) = NaN \/ value = NotAvailable
    THEN [value |-> NotAvailable, unit |-> "", raw |-> NaN]
    ELSE [value |-> NumToFixed2(parseFloat(value)), unit |-> "Cr",
          raw |-> parseFloat(value)]

\* (denominatorRaw !== 'N/A' && parseFloat(denominatorRaw) !== 0 &&
\*  numeratorRaw !== 'N/A') ? parseFloat(numeratorRaw) / parseFloat(denominatorRaw) : 'N/A'
GuardedRatio(numeratorRaw, denominatorRaw) ==
    IF denominatorRaw # NotAvailable /\ parseFloat(denominatorRaw) # R(0)
       /\ numeratorRaw # NotAvailable
    THEN JsDivide(parseFloat(numeratorRaw), parseFloat(denominatorRaw))
    ELSE NotAvailable

\* calculateProfitabilityMetricsInternal: the "Net Profit Margin" metric
netProfitMarginRaw(netIncomeRaw, revenueCurrentRaw) ==
    Times100(JsDivide(parseFloat(netIncomeRaw), parseFloat(revenueCurrentRaw)))

NetProfitMargin(netIncomeRaw, revenueCurrentRaw) ==
    formatPercentageInternal(netProfitMarginRaw(netIncomeRaw, revenueCurrentRaw), TRUE)

\* calculateFinancialHealthAndDebtMetricsInternal: the "Debt-to-Equity Ratio" metric
DebtToEquity(totalDebtRaw, totalEquityRaw) ==
    formatRatioInternal(GuardedRatio(totalDebtRaw, totalEquityRaw))

\* calculateLiquidityRatiosInternal: the "Current Ratio" metric
CurrentRatio(totalCurrentAssetsRaw, totalCurrentLiabilitiesRaw) ==
    formatRatioInternal(GuardedRatio(totalCurrentAssetsRaw, totalCurrentLiabilitiesRaw))

\* calculateShareholderReturnsMetricsInternal: the "Payout Ratio (%)" metric
PayoutRatio(dpsRaw, epsDilutedCurrentYoY) ==
    formatPercentageInternal(Times100(GuardedRatio(dpsRaw, epsDilutedCurrentYoY)),
                             FALSE)

\* calculateEfficiencyRatiosInternal: the "Return on Assets" metric
ReturnOnAssets(netIncomeRaw, totalAssetsBALRaw) ==
    formatPercentageInternal(Times100(GuardedRatio(netIncomeRaw, totalAssetsBALRaw)),
                             TRUE)

\* calculateCashFlowHealthMetricsInternal: the "Free Cash Flow (FCF)" metric
fcfRaw(cashFromOpsRaw, capExRaw) ==
    JsPlus(parseFloat(cashFromOpsRaw),
           parseFloat(IF capExRaw = NotAvailable THEN R(0) ELSE capExRaw))

FreeCashFlow(cashFromOpsRaw, capExRaw) ==
    formatToCroresInternal(fcfRaw(cashFromOpsRaw, capExRaw))

\* calculateCAGRInternal.  The root of Math.pow is not computed: a numeric
\* result is the record of its base endVal / startVal and of years, and its
\* sign, which is the sign of endVal - startVal.
calculateCAGRInternal(endValue, startValue, years) ==
    IF \/ parseFloat(endValue) = NaN \/ parseFloat(startValue) = NaN
       \/ parseFloat(startValue) = R(0) \/ years <= 0
       \/ endValue = NotAvailable \/ startValue = NotAvailable
    THEN [value |-> "N/A", unit |-> "", base |-> NaN, years |-> 0, colorClass |-> ""]
    ELSE IF parseFloat(startValue)[1] <= 0 \/ parseFloat(endValue)[1] <= 0
    THEN [value |-> "Not Meaningful", unit |-> "", base |-> NaN, years |-> 0,
          colorClass |-> ""]
    ELSE [value |-> "number", unit |-> "%",
          base |-> RDiv(parseFloat(endValue), parseFloat(startValue)),
          years |-> years,
          colorClass |->
             IF RGt(parseFloat(endValue), parseFloat(startValue))
             THEN "change-positive-text"
             ELSE IF RLt(parseFloat(endValue), parseFloat(startValue))
             THEN "change-negative-text" ELSE ""]

----------------------------------------------------------------------------
(* Statement lookups and the share capital metrics (utils.js).  A yearly      *)
(* record holds a map per statement; a key the map lacks is outside its       *)
(* DOMAIN, and a null or empty value is <<>>.                                 *)

STMT_INC == "incomeStatement"
STMT_BAL == "balanceSheet"
STMT_CAS == "cashFlowStatement"

\* the body of the getSafeInternal callback, for a year that exists
StatementValue(yearData, statementTypeConstant, key, defaultValue) ==
    IF statementTypeConstant \notin {STMT_INC, STMT_BAL, STMT_CAS}
    THEN defaultValue
    ELSE IF key \notin DOMAIN yearData[statementTypeConstant]
    THEN defaultValue
    ELSE getSafeInternal(yearData[statementTypeConstant][key], defaultValue)

findFinancialByYearInternal(yearlyFinancialData, yearIndex, statementTypeConstant, key) ==
    IF yearIndex + 1 > Len(yearlyFinancialData) THEN NotAvailable
    ELSE StatementValue(yearlyFinancialData[yearIndex + 1], statementTypeConstant,
                        key, NotAvailable)

formatCurrencyInternal(value) ==
    IF parseFloat(value) = NaN \/ value = NotAvailable
    THEN [value |-> NotAvailable, unit |-> "", raw |-> NaN]
    ELSE [value |-> NumToFixed2(parseFloat(value)), unit |-> "Rs",
          raw |-> parseFloat(value)]

\* { value: parseFloat(x).toLocaleString('en-IN'), unit: '', raw: parseFloat(x) }:
\* a value of NaN is displayed as the text "NaN"
PlainCount(x) == [value |-> parseFloat(x), unit |-> "", raw |-> parseFloat(x)]

bookValuePerShareTotalEquity(totalEquityRaw, totalCommonSharesBAL) ==
    IF /\ totalEquityRaw # NotAvailable /\ totalCommonSharesBAL # NotAvailable
       /\ parseFloat(totalCommonSharesBAL) # R(0)
    THEN JsDivide(parseFloat(totalEquityRaw), parseFloat(totalCommonSharesBAL))
    ELSE NotAvailable

ShareCapitalMetrics(totalEquityRaw, totalCommonSharesBAL, dilutedAvgSharesINC) ==
    [metrics |->
        <<[label |-> "Total Common Shares Outstanding"]
             @@ PlainCount(totalCommonSharesBAL),
          [label |-> "Diluted Weighted Avg Shares"]
             @@ PlainCount(dilutedAvgSharesINC),
          [label |-> "Book Value per Share (Total Equity)"]
             @@ formatCurrencyInternal(
                    bookValuePerShareTotalEquity(totalEquityRaw,
                                                 totalCommonSharesBAL))>>]

\* totalEquityRaw comes from calculateFinancialHealthAndDebtMetricsInternal
calculateShareCapitalInsightsInternal(stockDataFinancials) ==
    ShareCapitalMetrics(
        findFinancialByYearInternal(stockDataFinancials, 0, STMT_BAL, "TotalEquity"),
        findFinancialByYearInternal(stockDataFinancials, 0, STMT_BAL,
                                    "TotalCommonSharesOutstanding"),
        findFinancialByYearInternal(stockDataFinancials, 0, STMT_INC,
                                    "DilutedWeightedAverageShares"))

----------------------------------------------------------------------------
(* Metric computations on bounded statement values *)

MaxAmount == 2
MaxYears == 3

\* raw statement values: missing, unparsable, small amounts, and -5 and 10
RawValues ==
    {NotAvailable, NaN, R(-5), R(10)} \cup {R(v) : v \in (-MaxAmount)..MaxAmount}

RatioNames ==
    {"NetProfitMargin", "DebtToEquity", "CurrentRatio", "PayoutRatio",
     "ReturnOnAssets"}

\* statement values: present numbers and an empty value
StatementSamples == {<<>>, R(0), R(2)}

MapsOver(keys) == UNION {[present -> StatementSamples] : present \in SUBSET keys}

YearRecords ==
    [incomeStatement : MapsOver({"DilutedWeightedAverageShares"}),
     balanceSheet : MapsOver({"TotalEquity", "TotalCommonSharesOutstanding"}),
     cashFlowStatement : {<<>>}]

YearlyFinancials == {<<>>} \cup {<<y>> : y \in YearRecords}

MetricCalls ==
    [fn : RatioNames, numerator : RawValues, denominator : RawValues]
    \cup [fn : {"FreeCashFlow"}, cashFromOpsRaw : RawValues, capExRaw : RawValues]
    \cup [fn : {"CAGR"}, endValue : RawValues, startValue : RawValues,
          years : (-1)..MaxYears]
    \cup [fn : {"ShareCapital"}, stockDataFinancials : YearlyFinancials]

InitMetrics ==
    /\ libCall \in MetricCalls
    /\ libOut = Pending
    /\ HookUnmounted

CallNetProfitMargin ==
    /\ ~libOut.done
    /\ libCall.fn = "NetProfitMargin"
    /\ libOut' = Return(NetProfitMargin(libCall.numerator, libCall.denominator))
    /\ UNCHANGED <<libCall, hookVars, appVars>>

CallDebtToEquity ==
    /\ ~libOut.done
    /\ libCall.fn = "DebtToEquity"
    /\ libOut' = Return(DebtToEquity(libCall.numerator, libCall.denominator))
    /\ UNCHANGED <<libCall, hookVars, appVars>>

CallCurrentRatio ==
    /\ ~libOut.done
    /\ libCall.fn = "CurrentRatio"
    /\ libOut' = Return(CurrentRatio(libCall.numerator, libCall.denominator))
    /\ UNCHANGED <<libCall, hookVars, appVars>>

CallPayoutRatio ==
    /\ ~libOut.done
    /\ libCall.fn = "PayoutRatio"
    /\ libOut' = Return(PayoutRatio(libCall.numerator, libCall.denominator))
    /\ UNCHANGED <<libCall, hookVars, appVars>>

CallReturnOnAssets ==
    /\ ~libOut.done
    /\ libCall.fn = "ReturnOnAssets"
    /\ libOut' = Return(ReturnOnAssets(libCall.numerator, libCall.denominator))
    /\ UNCHANGED <<libCall, hookVars, appVars>>

CallFreeCashFlow ==
    /\ ~libOut.done
    /\ libCall.fn = "FreeCashFlow"
    /\ libOut' = Return(FreeCashFlow(libCall.cashFromOpsRaw, libCall.capExRaw))
    /\ UNCHANGED <<libCall, hookVars, appVars>>

CallCAGR ==
    /\ ~libOut.done
    /\ libCall.fn = "CAGR"
    /\ libOut' = Return(calculateCAGRInternal(libCall.endValue, libCall.startValue,
                                              libCall.years))
    /\ UNCHANGED <<libCall, hookVars, appVars>>

CallShareCapital ==
    /\ ~libOut.done
    /\ libCall.fn = "ShareCapital"
    /\ libOut' = Return(calculateShareCapitalInsightsInternal(
                      libCall.stockDataFinancials))
    /\ UNCHANGED <<libCall, hookVars, appVars>>

NextMetrics ==
    \/ CallNetProfitMargin \/ CallDebtToEquity \/ CallCurrentRatio
    \/ CallPayoutRatio \/ CallReturnOnAssets \/ CallFreeCashFlow \/ CallCAGR
    \/ CallShareCapital

SpecMetrics == InitMetrics /\ [][NextMetrics]_vars

----------------------------------------------------------------------------
(* The primary company and its peers (apiAdapter.js, utils.js).  A text is a  *)
(* sequence of one-character strings and a missing or empty field is <<>>;    *)
(* an object of peerCompanyList is named by its position in the list, and 0   *)
(* stands for the empty object {}.                                            *)

LowerOf == [c \in {"A", "B", "N", "O", "E"} |->
               CASE c = "A" -> "a" [] c = "B" -> "b" [] c = "N" -> "n"
                 [] c = "O" -> "o" [] c = "E" -> "e"]

UpperOf == [c \in {"a", "b"} |-> CASE c = "a" -> "A" [] c = "b" -> "B"]

toLowerCase(text) ==
    [i \in 1..Len(text) |->
        IF text[i] \in DOMAIN LowerOf THEN LowerOf[text[i]] ELSE text[i]]

toUpperCase(text) ==
    [i \in 1..Len(text) |->
        IF text[i] \in DOMAIN UpperOf THEN UpperOf[text[i]] ELSE text[i]]

\* text.split(' ')[0]
FirstWord(text) ==
    IF \E i \in 1..Len(text) : text[i] = " "
    THEN SubSeq(text, 1, (CHOOSE i \in 1..Len(text) :
                            /\ text[i] = " "
                            /\ \A j \in 1..(i - 1) : text[j] # " ") - 1)
    ELSE text

\* text.includes(part)
Includes(text, part) ==
    \E i \in 0..(Len(text) - Len(part)) : SubSeq(text, i + 1, i + Len(part)) = part

\* peers.find(test): the first position of Matches, 0 (undefined) if none
FirstOf(Matches) ==
    IF Matches = {} THEN 0 ELSE CHOOSE i \in Matches : \A j \in Matches : i <= j

TickerMatches(peers, nseCode) ==
    {i \in 1..Len(peers) :
        toUpperCase(getSafeInternal(peers[i].tickerId, <<>>)) = nseCode}

NameMatches(peers, currentCompanyName) ==
    {i \in 1..Len(peers) :
        Includes(toLowerCase(getSafeInternal(peers[i].companyName, <<>>)),
                 FirstWord(currentCompanyName))}

PrimaryByName(peers, currentCompanyName) ==
    IF currentCompanyName # <<>> THEN FirstOf(NameMatches(peers, currentCompanyName))
    ELSE 0

PrimaryOf(peers, nseCode, currentCompanyName) ==
    IF FirstOf(TickerMatches(peers, nseCode)) # 0
    THEN FirstOf(TickerMatches(peers, nseCode))
    ELSE PrimaryByName(peers, currentCompanyName)

getPrimaryCompanyDataFromPeerListInternal(stockJSON) ==
    PrimaryOf(stockJSON.peerCompanyList,
              toUpperCase(getSafeInternal(stockJSON.exchangeCodeNse, <<>>)),
              toLowerCase(getSafeInternal(stockJSON.companyName, <<>>)))

NonePlaceholder == <<"@", "#", "N", "O", "N", "E", "#", "@">>

\* the callback of allPeersRaw.filter
IsActualPeer(p, nseCodeMain, companyNameMainShort) ==
    /\ ~(nseCodeMain # <<>>
         /\ toUpperCase(getSafeInternal(p.tickerId, <<>>)) = nseCodeMain)
    /\ ~(toLowerCase(FirstWord(getSafeInternal(p.companyName, <<>>)))
            = companyNameMainShort
         /\ companyNameMainShort # toLowerCase(NonePlaceholder))

ActualPeersOf(allPeersRaw, nseCodeMain, companyNameMainShort) ==
    SelectSeq([i \in 1..Len(allPeersRaw) |-> i],
              LAMBDA i : IsActualPeer(allPeersRaw[i], nseCodeMain,
                                      companyNameMainShort))

transformStockDataApiResponse(rawApiData) ==
    [primaryCompanyPeerData |-> getPrimaryCompanyDataFromPeerListInternal(rawApiData),
     actualPeers |->
        ActualPeersOf(rawApiData.peerCompanyList,
            toUpperCase(getSafeInternal(rawApiData.exchangeCodeNse, <<>>)),
            toLowerCase(FirstWord(getSafeInternal(rawApiData.companyName,
                                                  NonePlaceholder))))]

----------------------------------------------------------------------------
(* Transformations of bounded API responses *)

MaxPeers == 2

TickerSamples == {<<>>, <<"A">>, <<"a">>, <<"B">>}

NameSamples == {<<>>, <<"A">>, <<"b">>, <<"b", " ", "a">>, <<"a", "b">>}

PeerRecords == [tickerId : TickerSamples, companyName : NameSamples]

PeerLists == UNION {[1..n -> PeerRecords] : n \in 0..MaxPeers}

ApiResponses ==
    [exchangeCodeNse : TickerSamples, companyName : NameSamples,
     peerCompanyList : PeerLists]

InitPeers ==
    /\ libCall \in [fn : {"transformStockDataApiResponse"}, rawApiData : ApiResponses]
    /\ libOut = Pending
    /\ HookUnmounted

CallTransform ==
    /\ ~libOut.done
    /\ libCall.fn = "transformStockDataApiResponse"
    /\ libOut' = Return(transformStockDataApiResponse(libCall.rawApiData))
    /\ UNCHANGED <<libCall, hookVars, appVars>>

NextPeers == CallTransform

SpecPeers == InitPeers /\ [][NextPeers]_vars

----------------------------------------------------------------------------
(* Peer averages and peer comparisons (utils.js, useCategorizedMetrics.js).   *)
(* A missing numeric field of a peer is <<>>, text that does not parse is NaN *)

\* the forEach of calculatePeerAverageInternal with every entry counted
PeerAverageLoop_CountAll(peerList, key, i, sum, count) ==
    IF peerList = <<>> THEN <<sum, count>>
    ELSE <<SumSlice([j \in 1..Len(peerList) |->
                       IF IsNum(parseFloat(getSafeInternal(peerList[j][key], Null)))
                       THEN parseFloat(getSafeInternal(peerList[j][key], Null))
                       ELSE R(0)], 0, Len(peerList)),
           Len(peerList)>>

\* peerList.forEach(peer => ...): <<sum, count>> after the peers from i on
RECURSIVE PeerAverageLoop(_, _, _, _, _)
PeerAverageLoop(peerList, key, i, sum, count) ==
    IF i > Len(peerList) THEN <<sum, count>>
    ELSE IF /\ getSafeInternal(peerList[i][key], Null) # Null
            /\ parseFloat(getSafeInternal(peerList[i][key], Null)) # NaN
    THEN PeerAverageLoop(peerList, key, i + 1,
             RAdd(sum, parseFloat(getSafeInternal(peerList[i][key], Null))),
             count + 1)
    ELSE PeerAverageLoop(peerList, key, i + 1, sum, count)

\* count > 0 ? sum / count : 'N/A', before the formatter
PeerAverageOf(sumAndCount) ==
    IF sumAndCount[2] > 0 THEN RDiv(sumAndCount[1], R(sumAndCount[2]))
    ELSE NotAvailable

\* calculatePeerAverageInternal(peerList, key, formatToCroresInternal)
calculatePeerAverageInternal(peerList, key) ==
    IF Len(peerList) = 0 THEN formatToCroresInternal(NotAvailable)
    ELSE formatToCroresInternal(
             PeerAverageOf(PeerAverageLoop(peerList, key, 1, R(0), 0)))

\* stockData.actualPeers as objects of the peer list
ActualPeerRecords(rawApiData, transformed) ==
    [k \in 1..Len(transformed.actualPeers) |->
        rawApiData.peerCompanyList[transformed.actualPeers[k]]]

\* useCategorizedMetrics: avgPeerMarketCap of a transformed response
AvgPeerMarketCapOf(rawApiData, transformed) ==
    [actualPeers |-> transformed.actualPeers,
     avgPeerMarketCap |->
        calculatePeerAverageInternal(ActualPeerRecords(rawApiData, transformed),
                                     "marketCap")]

avgPeerMarketCap(rawApiData) ==
    AvgPeerMarketCapOf(rawApiData, transformStockDataApiResponse(rawApiData))

Neutral == [status |-> "neutral", text |-> <<>>]

Verdict(status, word, metricName) == [status |-> status, text |-> <<word, metricName>>]

\* above the average `up`, below it `down`, equal to it neutral
CompareValues(companyVal, peerAvgVal, up, down) ==
    IF RGt(companyVal, peerAvgVal) THEN up
    ELSE IF RLt(companyVal, peerAvgVal) THEN down
    ELSE Neutral

\* getPeerComparisonDetailsInternal with the <= 0 test left out
ComparisonOf_NoGuard(companyVal, peerAvgVal, metricName, lowerIsBetter, isSizeComparison) ==
    IF isSizeComparison
    THEN CompareValues(companyVal, peerAvgVal,
                       Verdict("higher", "Larger", metricName),
                       Verdict("lower", "Smaller", metricName))
    ELSE IF lowerIsBetter
    THEN CompareValues(companyVal, peerAvgVal,
                       Verdict("worse", "Higher", metricName),
                       Verdict("better", "Lower", metricName))
    ELSE CompareValues(companyVal, peerAvgVal,
                       Verdict("better", "Higher", metricName),
                       Verdict("worse", "Lower", metricName))

\* the branches of getPeerComparisonDetailsInternal on two numbers
ComparisonOf(companyVal, peerAvgVal, metricName, lowerIsBetter, isSizeComparison) ==
    IF isSizeComparison
    THEN CompareValues(companyVal, peerAvgVal,
                       Verdict("higher", "Larger", metricName),
                       Verdict("lower", "Smaller", metricName))
    ELSE IF companyVal[1] <= 0 \/ peerAvgVal[1] <= 0
    THEN (IF metricName = "RoE" \/ metricName = "Dividend Yield"
          THEN CompareValues(companyVal, peerAvgVal,
                             Verdict("better", "Higher", metricName),
                             Verdict("worse", "Lower", metricName))
          ELSE Neutral)
    ELSE IF lowerIsBetter
    THEN CompareValues(companyVal, peerAvgVal,
                       Verdict("worse", "Higher", metricName),
                       Verdict("better", "Lower", metricName))
    ELSE CompareValues(companyVal, peerAvgVal,
                       Verdict("better", "Higher", metricName),
                       Verdict("worse", "Lower", metricName))

getPeerComparisonDetailsInternal(companyRaw, peerAvgObj, metricName, lowerIsBetter, isSizeComparison) ==
    IF \/ companyRaw = NotAvailable \/ peerAvgObj.value = NotAvailable
       \/ parseFloat(companyRaw) = NaN \/ peerAvgObj.raw = NaN
    THEN Neutral
    ELSE ComparisonOf(parseFloat(companyRaw), peerAvgObj.raw, metricName,
                      lowerIsBetter, isSizeComparison)

----------------------------------------------------------------------------
(* Peer averages and comparisons on bounded inputs *)

MaxListed == 3

MarketCapSamples == {<<>>, NaN, R(500), R(700), R(1000)}

ListedPeers ==
    [tickerId : {<<"A">>, <<"B">>}, companyName : {<<"a", "b">>},
     marketCap : MarketCapSamples]

ListedPeerLists == UNION {[1..n -> ListedPeers] : n \in 0..MaxListed}

ListedResponses ==
    [exchangeCodeNse : {<<"a">>}, companyName : {<<"A">>},
     peerCompanyList : ListedPeerLists]

\* the calls of getPeerComparisonDetailsInternal (utils.js 970-972, 1143, 1196)
ComparisonSites ==
    {[metricName |-> "P/E", lowerIsBetter |-> TRUE, isSizeComparison |-> FALSE],
     [metricName |-> "P/B", lowerIsBetter |-> TRUE, isSizeComparison |-> FALSE],
     [metricName |-> "Market Cap", lowerIsBetter |-> FALSE, isSizeComparison |-> TRUE],
     [metricName |-> "Dividend Yield", lowerIsBetter |-> FALSE,
      isSizeComparison |-> FALSE],
     [metricName |-> "RoE", lowerIsBetter |-> FALSE, isSizeComparison |-> FALSE]}

ComparisonCalls ==
    [fn : {"getPeerComparisonDetails"}, companyRaw : RawValues,
     peerAvgObj : {formatRatioInternal(v) : v \in RawValues},
     site : ComparisonSites]

InitComparison ==
    /\ libCall \in [fn : {"avgPeerMarketCap"}, rawApiData : ListedResponses]
                    \cup ComparisonCalls
    /\ libOut = Pending
    /\ HookUnmounted

CallPeerAverage ==
    /\ ~libOut.done
    /\ libCall.fn = "avgPeerMarketCap"
    /\ libOut' = Return(avgPeerMarketCap(libCall.rawApiData))
    /\ UNCHANGED <<libCall, hookVars, appVars>>

CallPeerComparison ==
    /\ ~libOut.done
    /\ libCall.fn = "getPeerComparisonDetails"
    /\ libOut' = Return(getPeerComparisonDetailsInternal(
                      libCall.companyRaw, libCall.peerAvgObj,
                      libCall.site.metricName, libCall.site.lowerIsBetter,
                      libCall.site.isSizeComparison))
    /\ UNCHANGED <<libCall, hookVars, appVars>>

NextComparison == CallPeerAverage \/ CallPeerComparison

SpecComparison == InitComparison /\ [][NextComparison]_vars

----------------------------------------------------------------------------
(* server.js: GET /api/stock with the key failover.                          *)
(* server = [env, pc, symbol, i, calls, responses, served]:                  *)
(*   env        which of PRIMARY_API_KEY and BACKUP_API_KEY the .env sets,    *)
(*   pc         "listening", or "awaiting" inside await makeApiCall,          *)
(*   i          the loop index of fetchStockDataWithFailover,                 *)
(*   calls      the external calls made for the request: key and outcome,     *)
(*   responses  the responses sent to the client for the request,             *)
(*   served     the number of requests answered so far.                       *)

KeyNames == <<"PRIMARY_API_KEY", "BACKUP_API_KEY">>

\* the origin of the external stock API
BASE_URL == "https://stock.indianapi.in"

\* [process.env.PRIMARY_API_KEY, process.env.BACKUP_API_KEY].filter(key => !!key)
API_KEYS(env) == SelectSeq(KeyNames, LAMBDA k : env[k])

\* the status test with every HTTP error taken as a reason to try the next key
Retryable_AnyStatus(status) == TRUE

\* error.response.status === 401 || ... === 403 || ... === 429
Retryable(status) == status \in {401, 403, 429}

\* an outcome of axios.get: a 2xx answer, an HTTP error, or no response at all
Outcomes ==
    {[kind |-> "ok", status |-> 200], [kind |-> "network", status |-> 0]}
    \cup [kind : {"http"}, status : {401, 403, 429, 404, 500}]

\* res.status(status).json(...) and the end of the handler
Respond(srv, status) ==
    [srv EXCEPT !.pc = "listening",
                !.responses = Append(@, [status |-> status]),
                !.served = @ + 1]

\* await makeApiCall(symbol, API_KEYS[i])
CallWithKey(srv, i) ==
    [srv EXCEPT !.pc = "awaiting", !.i = i,
                !.calls = Append(@, [key |-> API_KEYS(srv.env)[i + 1],
                                     outcome |-> [kind |-> "pending", status |-> 0]])]

\* the handler of GET /api/stock up to its first await
HandleRequest(srv, symbol) ==
    IF symbol = "" THEN Respond(srv, 400)
    ELSE IF Len(API_KEYS(srv.env)) = 0 THEN Respond(srv, 500)
    ELSE CallWithKey(srv, 0)

\* the catch block of the loop and what follows it, for the outcome of call i
AfterFailure(srv, outcome) ==
    IF outcome.kind = "http"
    THEN IF Retryable(outcome.status)
         THEN IF srv.i + 1 < Len(API_KEYS(srv.env))
              THEN CallWithKey(srv, srv.i + 1)
              ELSE Respond(srv, outcome.status)      \* finalError.status
         ELSE Respond(srv, outcome.status)           \* throw error
    ELSE Respond(srv, 500)                           \* no response object

\* the continuation of the handler when makeApiCall settles
AfterCall(srv, outcome) ==
    IF outcome.kind = "ok" THEN Respond(srv, 200)
    ELSE AfterFailure(srv, outcome)

WithOutcome(srv, outcome) ==
    [srv EXCEPT !.calls[Len(srv.calls)].outcome = outcome]

----------------------------------------------------------------------------
(* The server on bounded requests *)

MaxRequests == 2

ServerEnvs == [{"PRIMARY_API_KEY", "BACKUP_API_KEY"} -> BOOLEAN]

InitServer ==
    /\ libCall = <<>> /\ libOut = Pending
    /\ HookIdle
    /\ server \in [env : ServerEnvs, pc : {"listening"}, symbol : {""}, i : {0},
                    calls : {<<>>}, responses : {<<>>}, served : {0}]
    /\ app = <<>> /\ network = <<>>

\* a client sends GET /api/stock?symbol=...
ReceiveRequest ==
    /\ server.pc = "listening"
    /\ server.served < MaxRequests
    /\ \E symbol \in {"", "RELIANCE"} :
          server' = HandleRequest([server EXCEPT !.symbol = symbol, !.calls = <<>>,
                                                 !.responses = <<>>],
                                  symbol)
    /\ UNCHANGED <<libVars, hookVars, app, network>>

\* the external API answers the call in progress, or the call fails
ExternalReply ==
    /\ server.pc = "awaiting"
    /\ \E outcome \in Outcomes :
          server' = AfterCall(WithOutcome(server, outcome), outcome)
    /\ UNCHANGED <<libVars, hookVars, app, network>>

NextServer == ReceiveRequest \/ ExternalReply

SpecServer == InitServer /\ [][NextServer]_vars

----------------------------------------------------------------------------
(* The client: App.js with useStockDataApi and useHistoricalDataApi.          *)
(* app holds the React state of the three of them under the names of the      *)
(* source; null is a record with set = FALSE, an error message is "" for null. *)
(* The updates a handler or a continuation makes are rendered together, and   *)
(* the effects of that render run before the next event.                      *)
(* network = [issued, inFlight, sent, events]:                                *)
(*   issued    the number of fetchDataWithFallback calls so far,              *)
(*   inFlight  the requests sent with fetch and not yet answered,             *)
(*   sent      where every request went and the X-API-Key header it carried,  *)
(*   events    the number of user events so far.                              *)
(* The body a request is answered with is identified by the id of the call.   *)

EXTERNAL_API_BASE_URL == [origin |-> "https://stock.indianapi.in", path |-> "/stock"]

HISTORICAL_API_BASE_URL ==
    [origin |-> "https://stock.indianapi.in", path |-> "/historical_data"]

NullStockData == [set |-> FALSE, symbol |-> <<>>, data |-> 0]

NullHistoricalData == [set |-> FALSE, data |-> 0, queryKey |-> <<>>]

\* the state after the first render
AppMounted ==
    [symbol |-> <<>>, stockData |-> NullStockData, loading |-> FALSE, error |-> "",
     activeTab |-> "companyDetails",
     historicalData |-> NullHistoricalData, historicalLoading |-> FALSE,
     historicalError |-> "", historicalPeriod |-> "1yr", historicalFilter |-> "price"]

NetworkIdle == [issued |-> 0, inFlight |-> {}, sent |-> {}, events |-> 0]

\* String.prototype.trim on a text of letters and blanks
RECURSIVE TrimStart(_)
TrimStart(text) ==
    IF text # <<>> /\ Head(text) = " " THEN TrimStart(Tail(text)) ELSE text

RECURSIVE TrimEnd(_)
TrimEnd(text) ==
    IF text # <<>> /\ text[Len(text)] = " "
    THEN TrimEnd(SubSeq(text, 1, Len(text) - 1))
    ELSE text

trim(text) == TrimEnd(TrimStart(text))

\* `${symbol.toUpperCase()}-${historicalPeriod}-${historicalFilter}`
QueryKey(a) == <<toUpperCase(a.symbol), a.historicalPeriod, a.historicalFilter>>

\* fetch(url, { headers: { 'X-API-Key': apiKey } })
Send(net, req) ==
    [net EXCEPT !.inFlight = @ \cup {req},
                !.sent = @ \cup {[origin |-> req.url.origin, path |-> req.url.path,
                                  apiKey |-> req.apiKey]}]

\* fetchDataWithFallback up to its first await: the attempt with the primary key
FirstAttempt(net, kind, url, name, queryKey) ==
    Send([net EXCEPT !.issued = @ + 1],
         [id |-> net.issued + 1, kind |-> kind, attempt |-> "Primary", url |-> url,
          apiKey |-> "PRIMARY_API_KEY", name |-> name, queryKey |-> queryKey])

\* the catch of the primary attempt: the attempt with the backup key
SecondAttempt(net, req) ==
    Send(net, [req EXCEPT !.attempt = "Backup", !.apiKey = "BACKUP_API_KEY"])

\* primaryError.status === 401 || ... === 403 || ... === 429
BackupWarranted(req, status) == req.attempt = "Primary" /\ status \in {401, 403, 429}

\* fetchHistoricalData up to its await
fetchHistoricalData(a, net) ==
    IF a.symbol = <<>> \/ trim(a.symbol) = <<>> \/ ~a.stockData.set
    THEN [app |-> [a EXCEPT !.historicalData = NullHistoricalData,
                            !.historicalLoading = FALSE],
          network |-> net]
    ELSE [app |-> [a EXCEPT !.historicalLoading = TRUE, !.historicalError = ""],
          network |-> FirstAttempt(net, "historical", HISTORICAL_API_BASE_URL,
                                   toUpperCase(a.symbol), QueryKey(a))]

\* the effect that triggers the historical fetch
HistoricalFetchEffect(a, net) ==
    IF (a.activeTab = "historicalData" \/ a.historicalFilter = "price")
       /\ a.symbol # <<>> /\ a.stockData.set
    THEN IF a.historicalData.set /\ a.historicalData.queryKey = QueryKey(a)
         THEN [app |-> a, network |-> net]
         ELSE fetchHistoricalData(a, net)
    ELSE [app |-> a, network |-> net]

\* the dependency array of the effect; fetchHistoricalData changes with its own
DepsOf(a) ==
    <<a.activeTab, a.symbol, a.stockData, a.historicalPeriod, a.historicalFilter,
      a.historicalData>>

\* the render after a state update, with the effects whose dependencies changed,
\* repeated while an effect changes a dependency itself
RECURSIVE Rerender(_, _, _)
Rerender(old, a, net) ==
    IF DepsOf(old) = DepsOf(a) THEN [app |-> a, network |-> net]
    ELSE Rerender(a, HistoricalFetchEffect(a, net).app,
                  HistoricalFetchEffect(a, net).network)

\* (typeof currentSymbol === 'string' && currentSymbol.trim())
\*     ? currentSymbol.trim() : symbol.trim()
SymbolToFetch(a, currentSymbol) ==
    IF trim(currentSymbol) # <<>> THEN trim(currentSymbol) ELSE trim(a.symbol)

\* fetchStockData(currentSymbol) up to its await
fetchStockData(a, net, currentSymbol) ==
    IF SymbolToFetch(a, currentSymbol) = <<>>
    THEN [app |-> [a EXCEPT !.error = "Please enter a stock symbol or company name.",
                            !.stockData = NullStockData, !.loading = FALSE],
          network |-> net]
    ELSE [app |-> [a EXCEPT !.loading = TRUE, !.error = "",
                            !.stockData = NullStockData],
          network |-> FirstAttempt(net, "stock", EXTERNAL_API_BASE_URL,
                                   toUpperCase(SymbolToFetch(a, currentSymbol)), <<>>)]

\* setHistoricalData(null); setHistoricalError(null)
ClearHistorical(a) ==
    [a EXCEPT !.historicalData = NullHistoricalData, !.historicalError = ""]

\* the rest of fetchStockData when fetchDataWithFallback settles
StockSettled(a, req, status) ==
    IF status = 200
    THEN [a EXCEPT !.stockData = [set |-> TRUE, symbol |-> req.name, data |-> req.id],
                   !.loading = FALSE]
    ELSE [a EXCEPT !.error = "Error", !.stockData = NullStockData, !.loading = FALSE]

\* the rest of fetchHistoricalData when fetchDataWithFallback settles
HistoricalSettled(a, req, status) ==
    IF status = 200
    THEN [a EXCEPT !.historicalData = [set |-> TRUE, data |-> req.id,
                                       queryKey |-> req.queryKey],
                   !.historicalLoading = FALSE]
    ELSE [a EXCEPT !.historicalError = "Error",
                   !.historicalData = NullHistoricalData,
                   !.historicalLoading = FALSE]

Settled(a, req, status) ==
    IF req.kind = "stock" THEN StockSettled(a, req, status)
    ELSE HistoricalSettled(a, req, status)

----------------------------------------------------------------------------
(* The client on bounded user events *)

MaxEvents == 5

MaxInFlight == 2

TypedTexts == {<<>>, <<" ">>, <<"a">>, <<"B">>}

Periods == {"1yr", "5yr"}

Filters == {"price", "pe"}

Tabs == {"companyDetails", "historicalData", "analysis"}

\* a 2xx answer, an answer that warrants the backup key, another failure
Statuses == {200, 401, 500}

InitApp ==
    /\ libCall = <<>> /\ libOut = Pending
    /\ HookIdle
    /\ server = <<>>
    /\ app = AppMounted
    /\ network = NetworkIdle

\* the state after a user event: the handler's updates, then the render; the
\* user acts MaxEvents times, and only while fewer than MaxInFlight requests
\* are unanswered
AfterEvent(a, net) ==
    /\ network.events < MaxEvents
    /\ Cardinality(network.inFlight) < MaxInFlight
    /\ app' = Rerender(app, a, net).app
    /\ network' = [Rerender(app, a, net).network EXCEPT !.events = @ + 1]
    /\ UNCHANGED <<libVars, hookVars, server>>

\* handleSymbolChange(value): the user edits the search box
TypeSymbol ==
    \E value \in TypedTexts \ {app.symbol} :
        AfterEvent([app EXCEPT !.symbol = value, !.error = ""], network)

\* handleSubmit(event): the user submits the search form, whose button is
\* disabled={loading || !symbol.trim()}
Submit ==
    /\ ~app.loading
    /\ trim(app.symbol) # <<>>
    /\ AfterEvent(ClearHistorical(fetchStockData(app, network, trim(app.symbol)).app),
                  fetchStockData(app, network, trim(app.symbol)).network)

\* the tabs and the content of the active tab are rendered with stockData
TabsShown == app.stockData.set

\* the selectors of the historical data tab are disabled={historicalLoading}
SelectorsEnabled ==
    TabsShown /\ app.activeTab = "historicalData" /\ ~app.historicalLoading

\* setActiveTab(tab.id)
SelectTab ==
    /\ TabsShown
    /\ \E tab \in Tabs \ {app.activeTab} :
          AfterEvent([app EXCEPT !.activeTab = tab], network)

\* setHistoricalPeriod(period)
SelectPeriod ==
    /\ SelectorsEnabled
    /\ \E period \in Periods \ {app.historicalPeriod} :
          AfterEvent([app EXCEPT !.historicalPeriod = period], network)

\* setHistoricalFilter(filter)
SelectFilter ==
    /\ SelectorsEnabled
    /\ \E filter \in Filters \ {app.historicalFilter} :
          AfterEvent([app EXCEPT !.historicalFilter = filter], network)

\* a request is answered: fetchDataWithFallback goes on, and when it settles the
\* hook that awaits it does
Answered(req, status, net) ==
    /\ IF BackupWarranted(req, status)
       THEN /\ app' = app
            /\ network' = SecondAttempt(net, req)
       ELSE /\ app' = Rerender(app, Settled(app, req, status), net).app
            /\ network' = Rerender(app, Settled(app, req, status), net).network
    /\ UNCHANGED <<libVars, hookVars, server>>

StockResponse ==
    \E req \in network.inFlight, status \in Statuses :
        /\ req.kind = "stock"
        /\ Answered(req, status, [network EXCEPT !.inFlight = @ \ {req}])

HistoricalResponse ==
    \E req \in network.inFlight, status \in Statuses :
        /\ req.kind = "historical"
        /\ Answered(req, status, [network EXCEPT !.inFlight = @ \ {req}])

NextApp ==
    \/ TypeSymbol \/ Submit \/ SelectTab \/ SelectPeriod \/ SelectFilter
    \/ StockResponse \/ HistoricalResponse

SpecApp == InitApp /\ [][NextApp]_vars

----------------------------------------------------------------------------
(* Claims about the indicator library, under SpecLib *)

Max(a, b) == IF a >= b THEN a ELSE b

\* the sum of the integer data points lo..hi (1-based, inclusive)
RECURSIVE PointSum(_, _, _)
PointSum(data, lo, hi) ==
    IF lo > hi THEN 0 ELSE data[hi][1] + PointSum(data, lo, hi - 1)

\* C1: every non-null macdLine entry is the fast EMA minus the slow EMA of the
\* same data point: entry i pairs slowEMA[i] with fastEMA[i + slow - fast].
C1_MacdLineAligned ==
    (/\ Returned("MACD")
     /\ libCall.fastPeriod <= libCall.slowPeriod
     /\ Len(libCall.data) >= libCall.slowPeriod + libCall.signalPeriod - 1)
    => LET fastEMA == calculateEMAInternal(libCall.data, libCall.fastPeriod)
           slowEMA == calculateEMAInternal(libCall.data, libCall.slowPeriod)
           shift   == libCall.slowPeriod - libCall.fastPeriod
           macdLine == libOut.value.macdLine
       IN  \A j \in 1..Len(macdLine) :
               IsNum(macdLine[j]) =>
                   /\ j <= Len(slowEMA)
                   /\ macdLine[j] = RSub(fastEMA[j + shift], slowEMA[j])

\* C9: RSI returns nothing below period + 1 points and data.length - period
\* values from period + 1 points on.
C9_RsiLength ==
    Returned("RSI") =>
        LET n == Len(libCall.data)
        IN  /\ n < libCall.period + 1 => libOut.value = <<>>
            /\ n >= libCall.period + 1 => Len(libOut.value) = n - libCall.period

\* C10: SMA and EMA return max(0, data.length - p + 1) values, and entry j of
\* SMA is the mean of the p data points that start at j.
C10_SmaEmaLength ==
    LET n == Len(libCall.data)
    IN  /\ (Returned("SMA") \/ Returned("EMA")) =>
               Len(libOut.value) = Max(0, n - libCall.period + 1)
        /\ Returned("SMA") =>
               \A j \in 1..Len(libOut.value) :
                   RMul(libOut.value[j], R(libCall.period))
                       = R(PointSum(libCall.data, j, j + libCall.period - 1))

\* an SMA call that returned several, different means over windows of several points
C10_Witness ==
    /\ Returned("SMA")
    /\ libCall.period > 1
    /\ Len(libOut.value) > 1
    /\ libOut.value[1] # libOut.value[2]

\* C11: the first EMA value is the mean of the first period data points, every
\* later value is data[i] * k + previous * (1 - k) with k = 2 / (period + 1), and
\* the EMA of 1, 2, 3, 4, 5 with period 3 is 2, 3, 4.
C11_EmaSeedAndRecurrence ==
    (Returned("EMA") /\ Len(libCall.data) >= libCall.period) =>
        LET data == libCall.data
            p    == libCall.period
            ema  == libOut.value
            k    == RDiv(R(2), R(p + 1))
        IN  /\ RMul(ema[1], R(p)) = R(PointSum(data, 1, p))
            /\ \A j \in 2..Len(ema) :
                   ema[j] = RAdd(RMul(data[p + j - 1], k),
                                 RMul(ema[j - 1], RSub(R(1), k)))
            /\ (data = RampSeries /\ p = 3) => ema = <<R(2), R(3), R(4)>>

\* the EMA of 1, 2, 3, 4, 5 with period 3 has been computed
C11_Witness ==
    /\ Returned("EMA")
    /\ libCall.data = RampSeries
    /\ libCall.period = 3
    /\ Len(libOut.value) = 3

----------------------------------------------------------------------------
(* Claims about the volume indicators and the resampling, under SpecVolume *)

\* the sum of volumes[lo..hi] and of prices[i] * volumes[i] for i in lo..hi
RECURSIVE VolumeSum(_, _, _)
VolumeSum(volumes, lo, hi) ==
    IF lo > hi THEN R(0) ELSE RAdd(VolumeSum(volumes, lo, hi - 1), volumes[hi])

RECURSIVE PriceVolumeSum(_, _, _, _)
PriceVolumeSum(prices, volumes, lo, hi) ==
    IF lo > hi THEN R(0)
    ELSE RAdd(PriceVolumeSum(prices, volumes, lo, hi - 1),
              RMul(prices[hi], volumes[hi]))

\* C12: the rolling VWAP has one entry per price, null for the first period - 1;
\* from entry period on it is null when a price or volume of the trailing window
\* is invalid or the window's volume sum is 0, and sum(price * volume) /
\* sum(volume) over the whole window otherwise.
C12_RollingVwap ==
    Returned("VWAP") =>
        LET prices  == libCall.prices
            volumes == libCall.volumes
            period  == libCall.period
            vwap    == libOut.value
            n       == Len(prices)
        IN  /\ Len(vwap) = n
            /\ \A i \in 1..n : i < period => vwap[i] = Null
            /\ Len(volumes) = n =>
                  \A i \in period..n :
                      LET window  == (i - period + 1)..i
                          invalid == \E j \in window :
                                        ~IsNum(prices[j]) \/ ~IsNum(volumes[j])
                      IN  IF invalid THEN vwap[i] = Null
                          ELSE IF VolumeSum(volumes, i - period + 1, i) = R(0)
                          THEN vwap[i] = Null
                          ELSE vwap[i] = RDiv(PriceVolumeSum(prices, volumes,
                                                             i - period + 1, i),
                                              VolumeSum(volumes, i - period + 1, i))

\* the prices rise at every step and every volume is the first one
RisingAtConstantVolume(prices, volumes) ==
    /\ \A i \in 2..Len(prices) : prices[i][1] > prices[i - 1][1]
    /\ \A i \in 1..Len(volumes) : volumes[i] = volumes[1]

\* C13: OBV has one entry per price; obv[0] = 0 and obv[i] is obv[i-1] plus
\* volume[i] when the price rose, minus volume[i] when it fell, and obv[i-1] when
\* it stayed; for rising prices at constant volume v, obv[i] = i * v.
C13_ObvRecurrence ==
    (Returned("OBV") /\ Len(libCall.prices) = Len(libCall.volumes)) =>
        LET prices  == libCall.prices
            volumes == libCall.volumes
            obv     == libOut.value
            n       == Len(prices)
        IN  /\ Len(obv) = n
            /\ n > 0 => obv[1] = R(0)
            /\ \A i \in 2..n :
                   obv[i][1] = obv[i - 1][1]
                       + (IF prices[i][1] > prices[i - 1][1] THEN volumes[i][1]
                          ELSE IF prices[i][1] < prices[i - 1][1] THEN -volumes[i][1]
                          ELSE 0)
            /\ RisingAtConstantVolume(prices, volumes) =>
                   \A i \in 1..n : obv[i] = R((i - 1) * volumes[1][1])

\* the OBV of MaxPoints rising prices at a constant volume has been computed
C13_Witness ==
    /\ Returned("OBV")
    /\ Len(libCall.prices) = MaxPoints
    /\ RisingAtConstantVolume(libCall.prices, libCall.volumes)
    /\ libOut.value[MaxPoints] = R((MaxPoints - 1) * libCall.volumes[1][1])
    /\ libOut.value[MaxPoints] # R(0)

\* C14: the weekly volumes and the monthly volumes of a non-empty daily series
\* each add up to the sum of the daily volumes.
C14_VolumeConserved ==
    ((Returned("Weekly") \/ Returned("Monthly"))
     /\ Len(libCall.dailyVolumes) = Len(libCall.dailyPricesWithTimestamps)
     /\ Len(libCall.dailyVolumes) > 0)
    => PointSum(libOut.value.volumes, 1, Len(libOut.value.volumes))
           = PointSum(libCall.dailyVolumes, 1, Len(libCall.dailyVolumes))

\* a weekly resampling has put several days into one of several weeks
C14_Witness ==
    /\ Returned("Weekly")
    /\ Len(libOut.value.volumes) > 1
    /\ Len(libOut.value.volumes) < Len(libCall.dailyVolumes)

\* the timestamps of a daily series, and whether they strictly increase
Timestamps(daily) == [i \in 1..Len(daily) |-> daily[i][1]]
StrictlyIncreasing(ts) == \A i \in 2..Len(ts) : ts[i - 1] < ts[i]

\* the Monday on or before day t: day 0 was a Thursday, day -3 a Monday
MondayOf(t) == t - ((t + 3) % 7)

\* the sum of the whole volumes volumes[i], i in members and i <= hi
RECURSIVE SumWhere(_, _, _)
SumWhere(volumes, members, hi) ==
    IF hi = 0 THEN 0
    ELSE (IF hi \in members THEN volumes[hi][1] ELSE 0)
         + SumWhere(volumes, members, hi - 1)

\* the last (greatest) index of a non-empty set of indices
LastOf(members) == CHOOSE i \in members : \A j \in members : j <= i

\* out holds one bucket per key of the daily points, in increasing order of
\* KeyStart, with the bucket's start, its last price and its volume sum
OneBucketPerKey(Key(_), daily, dailyVolumes, out) ==
    LET n    == Len(daily)
        keys == {Key(daily[i][1]) : i \in 1..n}
    IN  /\ Len(out.timestamps) = Cardinality(keys)
        /\ Len(out.prices) = Cardinality(keys)
        /\ Len(out.volumes) = Cardinality(keys)
        /\ \A k \in 1..Len(out.timestamps) :
               LET members == {i \in 1..n : Key(daily[i][1]) = out.timestamps[k]}
               IN  /\ out.timestamps[k] \in keys
                   /\ k > 1 => out.timestamps[k - 1] < out.timestamps[k]
                   /\ out.prices[k] = daily[LastOf(members)][2]
                   /\ out.volumes[k] = R(SumWhere(dailyVolumes, members, n))

\* C15: for strictly increasing timestamps the weekly resampling emits one
\* bucket per Monday-started week that holds a daily point, in chronological
\* order: its timestamp is that Monday, its price the week's last price, its
\* volume the sum of the week's volumes.
C15_WeeklyBuckets ==
    (Returned("Weekly") /\ StrictlyIncreasing(Timestamps(libCall.dailyPricesWithTimestamps)))
    => OneBucketPerKey(MondayOf, libCall.dailyPricesWithTimestamps,
                       libCall.dailyVolumes, libOut.value)

\* a weekly resampling whose first day is a Sunday has closed a week of several
\* days and opened a further one
C15_Witness ==
    /\ Returned("Weekly")
    /\ (libCall.dailyPricesWithTimestamps[1][1] + 4) % 7 = 0
    /\ Len(libOut.value.timestamps) > 1
    /\ Len(libOut.value.timestamps) < Len(libCall.dailyPricesWithTimestamps)

\* the calendar, month by month from 2020-01-01 on: day 50 * 365 + 12 since
\* 1970-01-01 (50 years, 12 of them leap years)
IsLeapYear(y) == y % 4 = 0 /\ (y % 100 # 0 \/ y % 400 = 0)

DaysInMonth(y, m) ==
    IF m = 2 THEN (IF IsLeapYear(y) THEN 29 ELSE 28)
    ELSE IF m \in {4, 6, 9, 11} THEN 30 ELSE 31

\* the first day of the month of day t, a day of the month (y, m) that begins
\* on day first, or of a later month
RECURSIVE FirstOfMonthFrom(_, _, _, _)
FirstOfMonthFrom(t, y, m, first) ==
    IF t < first + DaysInMonth(y, m) THEN first
    ELSE FirstOfMonthFrom(t, IF m = 12 THEN y + 1 ELSE y, IF m = 12 THEN 1 ELSE m + 1,
                          first + DaysInMonth(y, m))

FirstOfMonth(t) == FirstOfMonthFrom(t, 2020, 1, 50 * 365 + 12)

\* C16: for strictly increasing timestamps the monthly resampling emits one
\* bucket per (year, month) that holds a daily point, also from December to
\* January: its timestamp is the first of the month, its price the month's last
\* price, its volume the sum of the month's volumes.
C16_MonthlyBuckets ==
    (Returned("Monthly") /\ StrictlyIncreasing(Timestamps(libCall.dailyPricesWithTimestamps)))
    => OneBucketPerKey(FirstOfMonth, libCall.dailyPricesWithTimestamps,
                       libCall.dailyVolumes, libOut.value)

\* a monthly resampling has closed a December of several days and opened the
\* January that follows it
C16_Witness ==
    /\ Returned("Monthly")
    /\ Len(libCall.dailyPricesWithTimestamps) > 2
    /\ Len(libOut.value.timestamps) = 2
    /\ libOut.value.timestamps[1] = 50 * 365 + 12 + 366 - 31
    /\ libOut.value.timestamps[2] = 50 * 365 + 12 + 366

----------------------------------------------------------------------------
(* Claims about the signal effect, under SpecScorer *)

\* the signal effect has scored the bundles of analysisData
Scored == pc = "idle" /\ activeTab = "analysis" /\ signalLocals.scored

Collected == signalLocals.signalReasons

Count(reason) == Cardinality({i \in DOMAIN Collected : Collected[i] = reason})

TimeframeNames == {"Daily", "Weekly", "Monthly"}

\* twice the weight of a timeframe: daily 1, weekly 1.5, monthly 2
Weight2Of(tfName) ==
    IF tfName = "Daily" THEN 2 ELSE IF tfName = "Weekly" THEN 3 ELSE 4

BullishTexts ==
    {"Price > SMA", "Price > EMA", "MACD Line above Signal Line",
     "MACD Histogram Positive", "RSI < 30 (Oversold)", "Price > VWAP (20)",
     "OBV trending up (above its 20-period SMA)"}

\* twice the vote a reason stands for: 1 for an average, the VWAP and the OBV,
\* 2 for the MACD lines, 0.5 for the MACD histogram, 1.5 for the RSI
Vote2Of(text) ==
    IF text \in {"MACD Line above Signal Line", "MACD Line below Signal Line"} THEN 4
    ELSE IF text \in {"MACD Histogram Positive", "MACD Histogram Negative"} THEN 1
    ELSE IF text \in {"RSI < 30 (Oversold)", "RSI > 70 (Overbought)"} THEN 3
    ELSE 2

\* the quarter points the first k collected reasons stand for, on one side
RECURSIVE VotesOn(_, _)
VotesOn(bullish, k) ==
    IF k = 0 THEN 0
    ELSE VotesOn(bullish, k - 1)
         + (IF (Collected[k].text \in BullishTexts) = bullish
            THEN Vote2Of(Collected[k].text) * Weight2Of(Collected[k].tf) ELSE 0)

\* every vote comes with its reason: the totals are the votes of the reasons
VotesAccounted ==
    /\ signalLocals.totalBullishScore = VotesOn(TRUE, Len(Collected))
    /\ signalLocals.totalBearishScore = VotesOn(FALSE, Len(Collected))

ReferencePrice == analysisData.daily.currentPriceForAnalysis

\* the bundle of a timeframe holds indicator slots
HasIndicators(data) == data.error = "" /\ data.hasSlots

NumGt(a, b) == IsNum(a) /\ IsNum(b) /\ RGt(a, b)

\* C3: for every timeframe and every SMA / EMA period whose recorded value is not
\* null, the scorer casts exactly one vote of 1 * weight: bullish when the daily
\* reference price is above the average, bearish otherwise, with one reason.
C3_MovingAverageVotes ==
    Scored =>
        /\ VotesAccounted
        /\ \A tf \in TimeframeNames, label \in {"SMA", "EMA"}, p \in Range(SMA_PERIODS) :
              LET data  == TimeframeData(analysisData, tf)
                  value == IF label = "SMA" THEN data.smas[p].value
                           ELSE data.emas[p].value
                  above == Count(Reason(tf, "Price > " \o label, p))
                  below == Count(Reason(tf, "Price < " \o label, p))
              IN  (HasIndicators(data) /\ value # Null) =>
                      IF NumGt(ReferencePrice, value)
                      THEN above = 1 /\ below = 0
                      ELSE above = 0 /\ below = 1

\* a monthly SMA below the price votes bullish and an EMA equal to the price
\* votes bearish
C3_Witness ==
    /\ Scored
    /\ Count(Reason("Monthly", "Price > SMA", SMA_PERIODS[1])) = 1
    /\ analysisData.monthly.emas[EMA_PERIODS[1]].value = ReferencePrice
    /\ Count(Reason("Monthly", "Price < EMA", EMA_PERIODS[1])) = 1
    /\ signalLocals.totalBullishScore > 0
    /\ signalLocals.totalBearishScore > 0

\* C4: for a bundle whose MACD slot holds non-null macd and signal values, the
\* scorer votes 2 * weight bullish iff macd > signal and bearish iff
\* macd < signal, and independently 0.5 * weight bullish iff the histogram is
\* above 0 and bearish iff it is below 0.
C4_MacdVotes ==
    Scored =>
        /\ VotesAccounted
        /\ \A tf \in TimeframeNames :
              LET data == TimeframeData(analysisData, tf)
                  macd == data.macd
                  Cast(text) == Count(Reason(tf, text, 0)) = 1
                  NotCast(text) == Count(Reason(tf, text, 0)) = 0
              IN  (/\ HasIndicators(data) /\ macd.set
                   /\ macd.macd # Null /\ macd.signal # Null) =>
                      /\ IF NumGt(macd.macd, macd.signal)
                         THEN Cast("MACD Line above Signal Line")
                         ELSE NotCast("MACD Line above Signal Line")
                      /\ IF NumGt(macd.signal, macd.macd)
                         THEN Cast("MACD Line below Signal Line")
                         ELSE NotCast("MACD Line below Signal Line")
                      /\ IF NumGt(macd.histogram, R(0))
                         THEN Cast("MACD Histogram Positive")
                         ELSE NotCast("MACD Histogram Positive")
                      /\ IF NumGt(R(0), macd.histogram)
                         THEN Cast("MACD Histogram Negative")
                         ELSE NotCast("MACD Histogram Negative")

\* the lines vote bullish and the histogram bearish for the same timeframe
C4_Witness ==
    /\ Scored
    /\ Count(Reason("Weekly", "MACD Line above Signal Line", 0)) = 1
    /\ Count(Reason("Weekly", "MACD Histogram Negative", 0)) = 1

\* C5: with B and R the totals after all votes, the signal is Bullish iff
\* B > 1.1 R, Bearish iff it is not Bullish and R > 1.1 B, Neutral otherwise, and
\* 'Not Enough Data for Signal' when no vote was cast; votes that are all bullish
\* give Bullish.
C5_Classification ==
    Scored =>
        LET B == signalLocals.totalBullishScore
            R_ == signalLocals.totalBearishScore
            signal == technicalSignal.signal
            bullish == 10 * B > 11 * R_
            bearish == ~bullish /\ 10 * R_ > 11 * B
        IN  IF B = 0 /\ R_ = 0 /\ Collected = <<>>
            THEN signal = "Not Enough Data for Signal"
            ELSE /\ (signal = "Bullish") = bullish
                 /\ (signal = "Bearish") = bearish
                 /\ (signal = "Neutral") = (~bullish /\ ~bearish)
                 /\ (B > 0 /\ R_ = 0) => signal = "Bullish"

\* more bullish than bearish points, within the 10 % margin
C5_Witness ==
    /\ Scored
    /\ technicalSignal.signal = "Neutral"
    /\ signalLocals.totalBullishScore > signalLocals.totalBearishScore
    /\ signalLocals.totalBearishScore > 0

\* the place of a reason in the order of collection: timeframe, then indicator
ReasonRank(reason) ==
    (IF reason.tf = "Daily" THEN 0 ELSE IF reason.tf = "Weekly" THEN 10 ELSE 20)
    + (IF reason.text \in {"Price > SMA", "Price < SMA"} THEN 1
       ELSE IF reason.text \in {"Price > EMA", "Price < EMA"} THEN 2
       ELSE IF reason.text \in {"MACD Line above Signal Line",
                                "MACD Line below Signal Line",
                                "MACD Histogram Positive",
                                "MACD Histogram Negative"} THEN 3
       ELSE IF reason.text \in {"RSI < 30 (Oversold)", "RSI > 70 (Overbought)"} THEN 4
       ELSE IF reason.text \in {"Price > VWAP (20)", "Price < VWAP (20)"} THEN 5
       ELSE 6)

\* C6: a signal shows at most 15 reasons; when votes were cast they are the first
\* 15 collected, and the reasons are collected daily, weekly, monthly and within
\* a timeframe SMA, EMA, MACD, RSI, VWAP, OBV.
C6_ReasonsOrder ==
    technicalSignal.set =>
        /\ Len(technicalSignal.reasons) <= 15
        /\ (Scored /\ Collected # <<>>) =>
              /\ \A i, j \in DOMAIN Collected :
                    i < j => ReasonRank(Collected[i]) <= ReasonRank(Collected[j])
              /\ Len(technicalSignal.reasons)
                    = (IF Len(Collected) < 15 THEN Len(Collected) ELSE 15)
              /\ \A i \in DOMAIN technicalSignal.reasons :
                    technicalSignal.reasons[i] = Collected[i]

\* more than 15 reasons from all three timeframes, the monthly ones cut off
C6_Witness ==
    /\ Scored
    /\ Len(Collected) > 15
    /\ Len(technicalSignal.reasons) = 15
    /\ technicalSignal.reasons[1].tf = "Daily"
    /\ technicalSignal.reasons[15].tf = "Weekly"
    /\ Collected[Len(Collected)].tf = "Monthly"

----------------------------------------------------------------------------
(* Claims about the hook, under Spec *)

\* the series the analysis effect computes its three bundles from
HistorySeries ==
    TimeframeSeries(CombineDaily(historicalData.values,
                                 IF historicalData.hasVolumeDataset
                                 THEN historicalData.volumeValues ELSE <<>>))

PointsOf(tfName) ==
    IF tfName = "Daily" THEN Len(HistorySeries.daily.prices)
    ELSE IF tfName = "Weekly" THEN Len(HistorySeries.weekly.prices)
    ELSE Len(HistorySeries.monthly.prices)

\* the analysis effect has stored the bundles of the current historical data
Analysed ==
    /\ pc = "idle" /\ activeTab = "analysis"
    /\ analysisData.set /\ analysisData.error = "" /\ analysisData.daily.hasSlots

\* C2: for every timeframe with at least 34 points the MACD slot holds non-null
\* macd-line and signal-line values, and the slot is null only below 34 points.
C2_MacdSlotAtLast ==
    Analysed =>
        \A tf \in TimeframeNames :
            LET macd == TimeframeData(analysisData, tf).macd
                enough == PointsOf(tf) >= MACD_SLOW_PERIOD + MACD_SIGNAL_PERIOD - 1
            IN  /\ enough => macd.set /\ macd.macd # Null /\ macd.signal # Null
                /\ ~macd.set => ~enough

\* the analysis effect ran its try block and the block threw
AnalysisThrew ==
    /\ pc = "idle" /\ activeTab = "analysis"
    /\ historicalErrorFromApi = "" /\ stockData.loaded
    /\ historicalData.loaded /\ IsPriceData
    /\ TryAnalysis.threw

\* C7: when the indicator computation throws, the signal is 'Analysis Error' and
\* its only reason is the error message.
C7_ThrownAnalysisSignal ==
    AnalysisThrew =>
        /\ technicalSignal.set
        /\ technicalSignal.signal = "Analysis Error"
        /\ technicalSignal.reasons = <<Message(TryAnalysis.message)>>

\* C8: a timeframe with fewer points than an indicator needs has a null slot for
\* it and gets no vote and no reason from it: SMA / EMA of period p below p
\* points, RSI below 15, Bollinger below 20, MACD below 34, VWAP below 20; a
\* timeframe without points gets no vote at all.
C8_NoVoteWithoutData ==
    Scored =>
        /\ VotesAccounted
        /\ \A tf \in TimeframeNames :
              LET n    == PointsOf(tf)
                  data == TimeframeData(analysisData, tf)
                  NotCast(text, p) == Count(Reason(tf, text, p)) = 0
              IN  /\ \A p \in Range(SMA_PERIODS) :
                        n < p =>
                            /\ HasIndicators(data) =>
                                  /\ data.smas[p].value = Null
                                  /\ data.emas[p].value = Null
                            /\ NotCast("Price > SMA", p) /\ NotCast("Price < SMA", p)
                            /\ NotCast("Price > EMA", p) /\ NotCast("Price < EMA", p)
                  /\ n < RSI_PERIOD + 1 =>
                        /\ ~data.rsi.set
                        /\ NotCast("RSI < 30 (Oversold)", 0)
                        /\ NotCast("RSI > 70 (Overbought)", 0)
                  /\ n < BOLLINGER_PERIOD => ~data.bollingerBands.set
                  /\ n < MACD_SLOW_PERIOD + MACD_SIGNAL_PERIOD - 1 =>
                        /\ ~data.macd.set
                        /\ NotCast("MACD Line above Signal Line", 0)
                        /\ NotCast("MACD Line below Signal Line", 0)
                        /\ NotCast("MACD Histogram Positive", 0)
                        /\ NotCast("MACD Histogram Negative", 0)
                  /\ n < VWAP_PERIOD =>
                        /\ data.vwap = Null \/ ~HasIndicators(data)
                        /\ NotCast("Price > VWAP (20)", 0)
                        /\ NotCast("Price < VWAP (20)", 0)
                  /\ n = 0 => \A i \in DOMAIN Collected : Collected[i].tf # tf

\* a daily series one point short of 20 with volumes: the RSI slot is filled and
\* votes, the SMA, Bollinger, MACD and VWAP slots are null
C8_Witness ==
    /\ Scored
    /\ PointsOf("Daily") = VWAP_PERIOD - 1
    /\ analysisData.daily.hasObvFullSeries
    /\ analysisData.daily.rsi.set
    /\ Count(Reason("Daily", "RSI > 70 (Overbought)", 0)) = 1
    /\ analysisData.daily.vwap = Null

----------------------------------------------------------------------------
(* Claims about the derived metrics, under SpecMetrics *)

\* C17: Net Profit Margin, Debt-to-Equity, Current Ratio, Payout Ratio and
\* Return on Assets are 'N/A' whenever the denominator is 0 or an operand is
\* 'N/A'; a revenue of 0 never displays an infinite or NaN margin.
C17_RatioNotAvailable ==
    (libCall.fn \in RatioNames /\ libOut.done
     /\ \/ libCall.denominator = R(0)
        \/ libCall.denominator = NotAvailable
        \/ libCall.numerator = NotAvailable)
    => libOut.value.value = NotAvailable

\* C18: Free Cash Flow is CashFromOps + CapitalExpenditures when both are
\* present and 'N/A' when either of them is 'N/A'.
C18_FreeCashFlow ==
    Returned("FreeCashFlow") =>
        LET cfo   == libCall.cashFromOpsRaw
            capEx == libCall.capExRaw
        IN  /\ (IsNum(cfo) /\ IsNum(capEx)) =>
                   /\ libOut.value.raw = R(cfo[1] + capEx[1])
                   /\ libOut.value.value = R(cfo[1] + capEx[1])
            /\ (cfo = NotAvailable \/ capEx = NotAvailable) =>
                   libOut.value.value = NotAvailable

\* C19: CAGR is 'Not Meaningful' whenever start <= 0 or end <= 0 (start = 0
\* included), 'N/A' only when an operand is missing or not a number or
\* years <= 0, and a number otherwise; CAGR(-5, 10, 2) is 'Not Meaningful'.
C19_CagrOutcome ==
    Returned("CAGR") =>
        LET end     == libCall.endValue
            start   == libCall.startValue
            missing == ~IsNum(end) \/ ~IsNum(start) \/ libCall.years <= 0
        IN  /\ libOut.value.value \in {"N/A", "Not Meaningful", "number"}
            /\ libOut.value.value = "N/A" => missing
            /\ (~missing /\ (start[1] <= 0 \/ end[1] <= 0)) =>
                   libOut.value.value = "Not Meaningful"
            /\ (~missing /\ start[1] > 0 /\ end[1] > 0) =>
                   libOut.value.value = "number"
            /\ (end = R(-5) /\ start = R(10) /\ libCall.years = 2) =>
                   libOut.value.value = "Not Meaningful"

\* C20: the record of the peer list that is identified as the primary company
\* (by its ticker, else by its name) is not one of actualPeers.
C20_PrimaryNotAPeer ==
    (Returned("transformStockDataApiResponse")
     /\ libOut.value.primaryCompanyPeerData # 0)
    => libOut.value.primaryCompanyPeerData \notin Range(libOut.value.actualPeers)

----------------------------------------------------------------------------
(* Claims about peer averages and comparisons, under SpecComparison *)

\* the positions of the actual peers whose marketCap is a number
NumericPeers(rawApiData, actualPeers) ==
    {k \in 1..Len(actualPeers) :
        /\ rawApiData.peerCompanyList[actualPeers[k]].marketCap # <<>>
        /\ IsNum(rawApiData.peerCompanyList[actualPeers[k]].marketCap)}

RECURSIVE MarketCapTotal(_, _, _)
MarketCapTotal(rawApiData, actualPeers, members) ==
    IF members = {} THEN 0
    ELSE LET k == CHOOSE m \in members : TRUE
         IN  rawApiData.peerCompanyList[actualPeers[k]].marketCap[1]
             + MarketCapTotal(rawApiData, actualPeers, members \ {k})

MeanIs(out, total, count) ==
    IF count = 0 THEN out.value = NotAvailable
    ELSE /\ IsNum(out.raw)
         /\ out.raw[1] * count = total * out.raw[2]
         /\ out.value = NumToFixed2(out.raw)

\* C21: the peer average of a field is the mean of the field over the actual
\* peers whose value is a number, other entries counting neither in the sum
\* nor in the count; it is 'N/A' for an empty list and for a list without a
\* number; a primary company of 1000 with peers of 500 and 700 gives 600.
C21_PeerAverage ==
    Returned("avgPeerMarketCap") =>
        /\ MeanIs(libOut.value.avgPeerMarketCap,
                  MarketCapTotal(libCall.rawApiData, libOut.value.actualPeers,
                      NumericPeers(libCall.rawApiData, libOut.value.actualPeers)),
                  Cardinality(NumericPeers(libCall.rawApiData,
                                           libOut.value.actualPeers)))
        /\ (libCall.rawApiData.peerCompanyList
               = <<[tickerId |-> <<"A">>, companyName |-> <<"a", "b">>,
                    marketCap |-> R(1000)],
                   [tickerId |-> <<"B">>, companyName |-> <<"a", "b">>,
                    marketCap |-> R(500)],
                   [tickerId |-> <<"B">>, companyName |-> <<"a", "b">>,
                    marketCap |-> R(700)]>>)
           => libOut.value.avgPeerMarketCap.raw = R(600)

C21_Witness ==
    /\ Returned("avgPeerMarketCap")
    /\ Len(libCall.rawApiData.peerCompanyList) = 3
    /\ libCall.rawApiData.peerCompanyList[1].tickerId = <<"A">>
    /\ libCall.rawApiData.peerCompanyList[1].marketCap = R(1000)
    /\ libCall.rawApiData.peerCompanyList[2].tickerId = <<"B">>
    /\ libCall.rawApiData.peerCompanyList[2].marketCap = NaN
    /\ libCall.rawApiData.peerCompanyList[3].tickerId = <<"B">>
    /\ libCall.rawApiData.peerCompanyList[3].marketCap = R(700)
    /\ libOut.value.actualPeers = <<2, 3>>
    /\ libOut.value.avgPeerMarketCap.raw = R(700)

\* C22: the verdict is neutral when the company value or the peer average is
\* not available or the two are equal; otherwise, for Market Cap, 'higher'
\* above the average and 'lower' below it; for P/E and P/B with both values
\* > 0, 'better' below the average and 'worse' above it; for other metrics
\* with both values > 0, 'better' above and 'worse' below; with a value <= 0,
\* neutral, except RoE and Dividend Yield: 'better' above, 'worse' below.
C22_PeerVerdict ==
    Returned("getPeerComparisonDetails") =>
        LET company == libCall.companyRaw
            average == libCall.peerAvgObj.raw
            site    == libCall.site
            status  == libOut.value.status
        IN  IF ~IsNum(company) \/ ~IsNum(average) \/ company = average
            THEN status = "neutral"
            ELSE IF site.isSizeComparison
            THEN status = (IF RGt(company, average) THEN "higher" ELSE "lower")
            ELSE IF company[1] > 0 /\ average[1] > 0
            THEN IF site.lowerIsBetter
                 THEN status = (IF RLt(company, average) THEN "better" ELSE "worse")
                 ELSE status = (IF RGt(company, average) THEN "better" ELSE "worse")
            ELSE IF site.metricName \in {"RoE", "Dividend Yield"}
            THEN status = (IF RGt(company, average) THEN "better" ELSE "worse")
            ELSE status = "neutral"

C22_Witness ==
    /\ Returned("getPeerComparisonDetails")
    /\ libCall.site.metricName = "RoE"
    /\ libCall.companyRaw = R(-5)
    /\ libCall.peerAvgObj.raw = R(-2)
    /\ libOut.value.status = "worse"

----------------------------------------------------------------------------
(* A further claim about the derived metrics, under SpecMetrics *)

\* the statement keys a share capital metric reads
KeysRead(label) ==
    IF label = "Total Common Shares Outstanding"
    THEN {<<STMT_BAL, "TotalCommonSharesOutstanding">>}
    ELSE IF label = "Diluted Weighted Avg Shares"
    THEN {<<STMT_INC, "DilutedWeightedAverageShares">>}
    ELSE {<<STMT_BAL, "TotalEquity">>, <<STMT_BAL, "TotalCommonSharesOutstanding">>}

KeyAbsent(stockDataFinancials, k) ==
    \/ stockDataFinancials = <<>>
    \/ k[2] \notin DOMAIN stockDataFinancials[1][k[1]]

\* C23: a metric that reads a statement key which is absent for the year has
\* 'N/A' as its formatted value, and no metric has NaN or an infinite value
\* as its formatted value.
C23_MissingKeyNotAvailable ==
    (libOut.done /\ libCall.fn = "ShareCapital") =>
        \A i \in 1..Len(libOut.value.metrics) :
            LET metric == libOut.value.metrics[i]
            IN  /\ (\E k \in KeysRead(metric.label) :
                       KeyAbsent(libCall.stockDataFinancials, k))
                   => metric.value = NotAvailable
                /\ metric.value \notin {NaN, PosInfinity, NegInfinity}

----------------------------------------------------------------------------
(* A further claim about the hook, under Spec *)

\* valid daily prices, and no volume dataset or no volume for any price timestamp
PricesWithoutVolume ==
    /\ historicalData.hasValues
    /\ \E i \in 1..Len(historicalData.values) : IsNum(historicalData.values[i][2])
    /\ \/ ~historicalData.hasVolumeDataset
       \/ \A i \in 1..Len(historicalData.values) :
             ~IsNum(MapGet(historicalData.volumeValues, historicalData.values[i][1]))

\* C24: with valid daily prices and no usable volume the analysis is not
\* aborted: the price-based indicators are computed and only the volume-based
\* slots (VWAP, volume SMA, OBV) are null.
C24_PriceIndicatorsWithoutVolume ==
    (/\ pc = "idle" /\ activeTab = "analysis"
     /\ historicalErrorFromApi = "" /\ stockData.loaded
     /\ historicalData.loaded /\ IsPriceData
     /\ PricesWithoutVolume)
    => /\ analysisData.set /\ analysisData.error = ""
       /\ analysisData.daily.error = "" /\ analysisData.daily.hasSlots
       /\ Len(historicalData.values) >= RSI_PERIOD + 1 => analysisData.daily.rsi.set
       /\ Len(historicalData.values) >= BOLLINGER_PERIOD
             => analysisData.daily.bollingerBands.set
       /\ \A tf \in TimeframeNames :
             LET data == TimeframeData(analysisData, tf)
             IN  /\ ~IsNum(data.vwap) /\ ~IsNum(data.volumeSMA) /\ ~IsNum(data.obv)

----------------------------------------------------------------------------
(* Claims about the server, under SpecServer *)

Failed(call) == call.outcome.kind \in {"http", "network"}

FailedOver(call) == call.outcome.kind = "http" /\ call.outcome.status \in {401, 403, 429}

\* no key is called twice, a failure that is not 401, 403 or 429 ends the calls
\* and is answered with an error, and there is one response per request
OneCallPerKeyOneResponse ==
    /\ \A j, k \in 1..Len(server.calls) :
          server.calls[j].key = server.calls[k].key => j = k
    /\ \A j \in 1..Len(server.calls) :
          (Failed(server.calls[j]) /\ ~FailedOver(server.calls[j]))
          => /\ j = Len(server.calls)
             /\ Len(server.responses) = 1 /\ server.responses[1].status # 200
    /\ Len(server.responses) <= 1
    /\ (server.pc = "listening" /\ server.served > 0) => Len(server.responses) = 1
    /\ (server.pc = "awaiting") => server.responses = <<>>

----------------------------------------------------------------------------
(* Claims about the OBV vote and the peer list *)

\* the OBV series a timeframe bundle carries, empty when it carries none
ObvSeriesOf(data) ==
    IF HasIndicators(data) /\ data.hasObvFullSeries THEN data.obvFullSeries ELSE <<>>

\* 20 times the mean of the last 20 values of the series
LastTwentySum(series) ==
    SumSlice(series, Len(series) - VOLUME_SMA_PERIOD, Len(series))

\* C27: for every timeframe whose OBV series has at least 20 points, the scorer
\* adds 1 * weight to the bullish score if the latest OBV is above the latest
\* value of its 20-period SMA, 1 * weight to the bearish score if it is below,
\* and nothing if they are equal; exactly 20 points are enough.
C27_ObvVote ==
    Scored =>
        /\ VotesAccounted
        /\ \A tf \in TimeframeNames :
              LET series == ObvSeriesOf(TimeframeData(analysisData, tf))
                  up     == Count(Reason(tf, "OBV trending up (above its 20-period SMA)", 0))
                  down   == Count(Reason(tf, "OBV trending down (below its 20-period SMA)", 0))
              IN  Len(series) >= VOLUME_SMA_PERIOD =>
                      LET latest20 == RMul(R(VOLUME_SMA_PERIOD), series[Len(series)])
                          sum      == LastTwentySum(series)
                      IN  /\ up = (IF RGt(latest20, sum) THEN 1 ELSE 0)
                          /\ down = (IF RLt(latest20, sum) THEN 1 ELSE 0)

\* the ticker of the record is not the ticker of the subject company
DifferentTicker(p, rawApiData) ==
    /\ p.tickerId # <<>> /\ rawApiData.exchangeCodeNse # <<>>
    /\ toUpperCase(p.tickerId) # toUpperCase(rawApiData.exchangeCodeNse)

\* C28: actualPeers contains every peer-list record other than the primary
\* company: a record with a ticker different from the subject's is never
\* removed, also when its name starts with the first word of the subject's name.
C28_DifferentCompanyKept ==
    Returned("transformStockDataApiResponse") =>
        \A i \in 1..Len(libCall.rawApiData.peerCompanyList) :
            (/\ i # libOut.value.primaryCompanyPeerData
             /\ DifferentTicker(libCall.rawApiData.peerCompanyList[i], libCall.rawApiData))
            => i \in Range(libOut.value.actualPeers)

----------------------------------------------------------------------------
(* Claims about the client, under SpecApp *)

\* C26: the client never sends a request to the external indianapi.in service
\* and never attaches an API key to a request.
C26_ClientCallsBackendOnly ==
    \A r \in network.sent : r.origin # BASE_URL /\ r.apiKey = ""

\* the inputs of useTechnicalAnalysis
AnalysisInputs(a) ==
    <<a.historicalData, a.stockData, a.activeTab, a.historicalError, a.historicalFilter>>

\* the analysis effect computes the indicators in this state
AnalysisComputed == app.activeTab = "analysis" /\ app.historicalData.set /\ app.stockData.set

\* the historical series was fetched for the symbol of the loaded stockData
SeriesOfLoadedStock == app.historicalData.queryKey[1] = app.stockData.symbol

\* the calls of fetchHistoricalData made in the step
HistoricalIssued ==
    {r \in network'.inFlight : r.kind = "historical" /\ r.id > network.issued}

\* C29: a historical request is issued only for the symbol of the loaded
\* stockData; whenever the analysis is computed, the historical series it reads
\* was fetched for the symbol of the stockData it reads; editing the search box
\* issues no historical request and does not change the inputs of the analysis.
C29_HistoricalOfLoadedStock ==
    /\ [](AnalysisComputed => SeriesOfLoadedStock)
    /\ [][/\ \A r \in HistoricalIssued :
                app'.stockData.set /\ r.name = app'.stockData.symbol
          /\ app'.symbol # app.symbol =>
                /\ HistoricalIssued = {}
                /\ AnalysisInputs(app') = AnalysisInputs(app)]_vars

HistoricalInFlight == {r \in network.inFlight : r.kind = "historical"}

\* the request whose answer the historical state shows, 0 when it shows none
ShownRequest(a) == a.historicalData.data

\* C30: the answer of an earlier-issued historical request never replaces the
\* result of a later-issued one, and historicalLoading is false only when no
\* historical request is in flight.
C30_LatestHistoricalWins ==
    /\ [](~app.historicalLoading => HistoricalInFlight = {})
    /\ [][(app.historicalData.set /\ app'.historicalData.set)
            => ShownRequest(app') >= ShownRequest(app)]_vars

====
